---- MODULE Spec2Model ----
(***************************************************************************)
(* A model of ratatui-py: the handle-owning wrappers and batched drawing   *)
(* of ratatui_py/wrappers.py, the BackgroundTask worker of                 *)
(* ratatui_py/util.py, the App.run loop of ratatui_py/wrappers.py, the     *)
(* library loader of ratatui_py/_ffi.py and the splits of layout.py.       *)
(*                                                                         *)
(* Specifications:                                                         *)
(*   SpecClose     wrapper lifecycle (close / finalizer) over every        *)
(*                 wrapper type                                            *)
(*   Spec          wrappers, DrawCmd, Terminal.draw_frame and Frame        *)
(*   SpecTask      BackgroundTask: one owning thread and its workers       *)
(*   SpecTaskFair  SpecTask under a fair scheduler                         *)
(*   SpecApp       one call of App.run, in every configuration             *)
(*   SpecScope     App.run, or with blocks on a Terminal, raw_mode() and   *)
(*                 alt_screen()                                            *)
(*   SpecLoad      load_library in every world of files and libraries      *)
(*   SpecFfi       constructors, optional operations and headless render   *)
(*                 helpers over builds lacking optional entry points       *)
(*   SpecLayout    split_h and split_v of layout.py                        *)
(*   SpecColor     rgb and color_indexed with and without the native       *)
(*                 color helpers                                           *)
(*   SpecCast      convert of scripts/convert_cast_v3_to_v2.py on every    *)
(*                 cast file                                               *)
(*   SpecReadme    README injection of the snapshot scripts on every       *)
(*                 README                                                  *)
(*   SpecHub       the loop of run_demo_hub over the twelve demos          *)
(*   SpecList      List.append_items_spans with and without the native     *)
(*                 batching call                                           *)
(***************************************************************************)
EXTENDS Integers, Sequences, FiniteSets, TLC

(***************************************************************************)
(* Bounds of the model.                                                    *)
(***************************************************************************)
NumWidgets == 2
NumRects == 2
MaxCmds == 2
MaxThreads == 2
NumResults == 2
NumErrors == 2
MaxTickMs == 2
UnitsPerMs == 2
MaxStep == 3
NumPaths == 2
MaxCalls == 2
MaxOrigin == 1
MaxSide == 5
MaxFracs == 3
MaxFrac == 2
MaxGap == 1
MaxEvents == 2
NumEvents == 2
MaxPieces == 4
MaxScroll == 2
MaxItems == 2
MaxSpans == 2

(***************************************************************************)
(* Objects.  Object 0 is the Terminal, 1..NumWidgets are widget wrappers.  *)
(* The native pointer the engine hands out for object o is Ptr(o), never   *)
(* null; NULL is what ctypes passes for a handle of None.                  *)
(***************************************************************************)
NULL == 0
NoOwner == -1
TermObj == 0
Widgets == 1..NumWidgets
Objs == {TermObj} \cup Widgets
Ptr(o) == o + 1
Rects == 1..NumRects

\* FFI_WIDGET_KIND: the kinds a DrawCmd helper exists for, by code.
FFI_WIDGET_KIND ==
  [Paragraph |-> 1, List |-> 2, Table |-> 3, Gauge |-> 4, Tabs |-> 5,
   BarChart |-> 6, Sparkline |-> 7, Chart |-> 8]
DrawableKinds == DOMAIN FFI_WIDGET_KIND
WidgetKinds == DrawableKinds \cup {"Scrollbar", "ListState", "TableState"}

\* The native free function each wrapper's close() calls.
FreeFn(k) ==
  CASE k = "Paragraph" -> "ratatui_paragraph_free"
    [] k = "Terminal" -> "ratatui_terminal_free"
    [] k = "List" -> "ratatui_list_free"
    [] k = "Table" -> "ratatui_table_free"
    [] k = "Gauge" -> "ratatui_gauge_free"
    [] k = "Tabs" -> "ratatui_tabs_free"
    [] k = "BarChart" -> "ratatui_barchart_free"
    [] k = "Sparkline" -> "ratatui_sparkline_free"
    [] k = "Scrollbar" -> "ratatui_scrollbar_free"
    [] k = "Chart" -> "ratatui_chart_free"
    [] k = "ListState" -> "ratatui_list_state_free"
    [] k = "TableState" -> "ratatui_table_state_free"

\* One unguarded configuration call per wrapper type.
SetterFn(k) ==
  CASE k = "Terminal" -> "ratatui_terminal_clear"
    [] k = "Paragraph" -> "ratatui_paragraph_set_block_title"
    [] k = "List" -> "ratatui_list_set_block_title"
    [] k = "Table" -> "ratatui_table_set_block_title"
    [] k = "Gauge" -> "ratatui_gauge_set_block_title"
    [] k = "Tabs" -> "ratatui_tabs_set_block_title"
    [] k = "BarChart" -> "ratatui_barchart_set_block_title"
    [] k = "Sparkline" -> "ratatui_sparkline_set_block_title"
    [] k = "Scrollbar" -> "ratatui_scrollbar_set_block_title"
    [] k = "Chart" -> "ratatui_chart_set_block_title"
    [] k = "ListState" -> "ratatui_list_state_set_selected"
    [] k = "TableState" -> "ratatui_table_state_set_selected"

\* The single-widget draw call of Terminal for a drawable kind.
DrawFn(k) ==
  CASE k = "Paragraph" -> "ratatui_terminal_draw_paragraph_in"
    [] k = "List" -> "ratatui_terminal_draw_list_in"
    [] k = "Table" -> "ratatui_terminal_draw_table_in"
    [] k = "Gauge" -> "ratatui_terminal_draw_gauge_in"
    [] k = "Tabs" -> "ratatui_terminal_draw_tabs_in"
    [] k = "BarChart" -> "ratatui_terminal_draw_barchart_in"
    [] k = "Sparkline" -> "ratatui_terminal_draw_sparkline_in"
    [] k = "Chart" -> "ratatui_terminal_draw_chart_in"

VARIABLES
  \* ---- the wrappers (Python side)
  kind,        \* kind[o]: the wrapper type of object o
  handle,      \* handle[o]: the wrapper's _handle (NULL once close() has run)
  userRef,     \* userRef[o]: the program still holds a reference to the wrapper
  finalized,   \* finalized[o]: __del__ has run, the wrapper is gone
  \* ---- the native engine
  freed,       \* pointers whose free function has been called
  freeCalls,   \* freeCalls[o]: the free functions called on Ptr(o), in order
  freedBy,     \* freedBy[o]: "none", "close" (explicit) or "finalizer"
  staleCall,   \* whether the latest native call received a pointer that
               \* had already been freed when the call was made
  \* ---- DrawCmd lists, Terminal.draw_frame, Frame
  cmds,        \* the program's list of DrawCmds
  dfPc,        \* draw_frame: "idle", "marshalled" (array built), "returned"
  dfCaller,    \* who called draw_frame: "user" or "frame"
  dfArgs,      \* draw_frame's argument cmds
  arr,         \* the FfiDrawCmd array built by draw_frame
  owners,      \* draw_frame's local list of owners
  batch,       \* the array the native batched-draw call received
  batchCalls,  \* native batched-draw calls issued by this draw_frame call
  nativeOk,    \* the flag the native batched-draw call returned
  dfRet,       \* what draw_frame returned
  fpc,         \* Frame: "none", "entered", "exiting", "exited", "raised"
  fCmds,       \* Frame._cmds
  fOk,         \* Frame.ok: "None", "True" or "False"
  fAppended,   \* every DrawCmd handed to the Frame since it was made, in order
  fDraws,      \* draw_frame calls made by the Frame's __exit__
  \* ---- BackgroundTask
  loop,        \* self._loop
  stopFlag,    \* self._stop (the Event's flag)
  lock,        \* holder of self._lock: "free", "owner" or a worker id
  result,      \* self._result (None until a run has been recorded)
  error,       \* self._error (None until a failure has been captured)
  thread,      \* self._thread: a worker id, or None
  wpc,         \* wpc[t]: where worker t is in run()
  res,         \* res[t]: worker t's local res
  exc,         \* exc[t]: the failure worker t's unit of work raised
  spawned,     \* number of threads created so far
  opc,         \* the owning thread: "idle", "assign" (inside start), "peek"
               \* (inside peek, holding the lock), "join", "join_timed"
  peeked,      \* what the latest peek() returned
  hist,        \* the values returned by the last two successful runs
  lastRaised,  \* the failure raised by the latest failing run
  lastStart,   \* the latest start(): "none", "spawned" or "noop"
  stopAt,      \* where the live worker was when stop() was first called
  \* ---- App.run
  app,         \* the App's configuration: tick_ms, clear_each_frame and which
               \* optional callbacks were given
  apc,         \* where run() is
  appHandle,   \* _handle of the Terminal that run() opened
  appFrees,    \* ratatui_terminal_free calls on that Terminal's pointer
  sinceTick,   \* monotonic() - last_tick, in time units
  elapsed_ms,  \* run()'s local elapsed_ms
  wait_ms,     \* run()'s local wait_ms
  evt,         \* run()'s local evt: "None" or "key"
  waited,      \* time units the latest next_event call took
  now2El,      \* now2 - last_tick at the latest tick test, in time units
  tickDur,     \* time units the latest on_tick call took
  calls,       \* what run() has called since the current iteration began
  iterEnd,     \* the latest iteration: "none", "running", "completed",
               \* "break" or "raised"
  failure,     \* the failure run() is propagating, or "None"
  stopArgs,    \* the first argument of every on_stop call, in order
  \* ---- scoped blocks: with Terminal, with raw_mode(), with alt_screen()
  scStack,     \* the context managers whose block is open, innermost last
  scEntered,   \* the context managers entered so far
  scLog,       \* the native calls the scoped helpers have made, in order
  scExc,       \* a failure raised inside a block is on its way out
  \* ---- load_library
  world,       \* the files and libraries outside the process
  cached,      \* _cached_lib (NoLib for None)
  ldCachedBefore, \* _cached_lib when the latest load_library call began
  ldPath,      \* path in the latest load_library call
  ldRet,       \* what the latest load_library call returned (NoLib: raised)
  ldErr,       \* the error the latest load_library call raised
  ldTried,     \* the loads the latest load_library call attempted, in order
  ldCalls,     \* load_library calls made so far (counted up to MaxCalls)
  \* ---- the library build, constructors, optional operations
  caps,        \* the optional entry points the loaded library has
  ctor,        \* ctor[o]: "none", "ok", or how the constructor raised:
               \* "null" (native new returned null), "unsupported"
  newCalls,    \* newCalls[o]: native new calls made for wrapper o
  call,        \* the latest optional operation or headless render call
  \* ---- layout
  lyRect,      \* the rect given to split_h / split_v
  lyFr,        \* the fractions given, as numerators over FracDen
  lyGap,       \* the gap given
  lyFn,        \* the function applied last: "none", "split_h", "split_v"
  lyOut,       \* what it returned (<<>> when it raised)
  lyErr,       \* the exception it raised, "none" when it returned
  \* ---- rgb / color_indexed
  colCaps,     \* which of the native color helpers the library has
  colRgb,      \* the latest rgb call: arguments, result, by the native helper
  colIdx,      \* the latest color_indexed call, likewise
  \* ---- scripts/convert_cast_v3_to_v2.py
  castIn,      \* the input file: its lines, each a body and a terminator
  castOut,     \* the output file (<<>> while it does not exist or is empty)
  castErr,     \* how convert ended: "none" (returned) or the failure
  castRan,     \* convert has been called
  \* ---- README injection of the snapshot scripts
  rdFile,      \* the README file: a sequence of pieces of text
  rdBefore,    \* the README file when the latest injection began
  rdBy,        \* the script that injected last, "none" before the first
  rdErr,       \* how the latest injection ended: "none" or the failure
  \* ---- run_demo_hub
  idx,         \* the hub's idx: the index of the current demo in demos
  code_scroll, \* the hub's code_scroll
  hubRun,      \* "running", or "exited" once the loop was left
  hubDemo,     \* idx when the latest iteration began
  hubScroll,   \* code_scroll when the latest iteration began
  hubFrame,    \* draw_frame in the latest iteration: "none", "ok", "failed"
  hubCalls,    \* the draw calls of the latest iteration, in order
  hubEvt,      \* the event the latest iteration received
  hubKeyTo,    \* the demos whose on_key the latest iteration called
  \* ---- List.append_items_spans
  lstBatch,    \* the library has ratatui_list_append_items_spans
  lstArg,      \* items: per entry, its spans, each a text and a style
  lstItems,    \* the ratatui_list_append_item calls made: text and style
  lstNative,   \* entries handed to ratatui_list_append_items_spans, or -1
  lstDone      \* append_items_spans has returned

wrapVars == <<kind, handle, userRef, finalized>>
nativeVars == <<freed, freeCalls, freedBy, staleCall>>
drawVars == <<cmds, dfPc, dfCaller, dfArgs, arr, owners, batch, batchCalls,
              nativeOk, dfRet>>
frameVars == <<fpc, fCmds, fOk, fAppended, fDraws>>
taskVars == <<loop, stopFlag, lock, result, error, thread, wpc, res, exc,
              spawned, opc, peeked, hist, lastRaised, lastStart, stopAt>>
appVars == <<app, apc, appHandle, appFrees, sinceTick, elapsed_ms, wait_ms,
             evt, waited, now2El, tickDur, calls, iterEnd, failure, stopArgs>>
scopeVars == <<scStack, scEntered, scLog, scExc>>
loadVars == <<world, cached, ldCachedBefore, ldPath, ldRet, ldErr, ldTried,
              ldCalls>>
ffiVars == <<caps, ctor, newCalls, call>>
layoutVars == <<lyRect, lyFr, lyGap, lyFn, lyOut, lyErr>>
colorVars == <<colCaps, colRgb, colIdx>>
castVars == <<castIn, castOut, castErr, castRan>>
readmeVars == <<rdFile, rdBefore, rdBy, rdErr>>
hubVars == <<idx, code_scroll, hubRun, hubDemo, hubScroll, hubFrame,
             hubCalls, hubEvt, hubKeyTo>>
listVars == <<lstBatch, lstArg, lstItems, lstNative, lstDone>>
moreVars == <<colorVars, castVars, readmeVars, hubVars, listVars>>
helperVars == <<scopeVars, loadVars, ffiVars, layoutVars, moreVars>>
vars ==
  <<wrapVars, nativeVars, drawVars, frameVars, taskVars, appVars, helperVars>>

\* A native call fn(ptrs...): whether it receives a freed pointer.
Native(fn, ptrs) == \E i \in DOMAIN ptrs : ptrs[i] \in freed

\* None, for a result, a failure or a thread; results, failures and worker
\* ids are positive.
None == 0
Threads == 1..MaxThreads
Results == 1..NumResults
Errors == 1..NumErrors

BoolStr(b) == IF b THEN "True" ELSE "False"

\* The kinds fixed for Spec: every widget is drawable, kinds differ.
FixedKind(o) ==
  IF o = TermObj THEN "Terminal"
  ELSE IF o % 2 = 1 THEN "Paragraph" ELSE "List"

\* BackgroundTask.__init__, before any start().
InitTask ==
  /\ stopFlag = FALSE
  /\ lock = "free"
  /\ result = None
  /\ error = None
  /\ thread = None
  /\ wpc = [t \in Threads |-> "unborn"]
  /\ res = [t \in Threads |-> None]
  /\ exc = [t \in Threads |-> None]
  /\ spawned = 0
  /\ opc = "idle"
  /\ peeked = None
  /\ hist = <<None, None>>
  /\ lastRaised = None
  /\ lastStart = "none"
  /\ stopAt = "none"

InitWrappers ==
  /\ handle = [o \in Objs |-> Ptr(o)]
  /\ userRef = [o \in Objs |-> TRUE]
  /\ finalized = [o \in Objs |-> FALSE]
  /\ freed = {}
  /\ freeCalls = [o \in Objs |-> <<>>]
  /\ freedBy = [o \in Objs |-> "none"]
  /\ staleCall = FALSE
  /\ cmds = <<>>
  /\ dfPc = "idle"
  /\ dfCaller = "user"
  /\ dfArgs = <<>>
  /\ arr = <<>>
  /\ owners = <<>>
  /\ batch = <<>>
  /\ batchCalls = 0
  /\ nativeOk = FALSE
  /\ dfRet = FALSE
  /\ fpc = "none"
  /\ fCmds = <<>>
  /\ fOk = "None"
  /\ fAppended = <<>>
  /\ fDraws = 0

\* The configurations of an App: tick_ms, clear_each_frame, and for each
\* optional callback whether it was given.
AppConfigs ==
  [tick_ms : 0..MaxTickMs, clear_each_frame : BOOLEAN, on_event : BOOLEAN,
   on_tick : BOOLEAN, on_start : BOOLEAN, on_stop : BOOLEAN]

\* App(render=render, tick_ms=MaxTickMs)
RenderOnly ==
  [tick_ms |-> MaxTickMs, clear_each_frame |-> FALSE, on_event |-> FALSE,
   on_tick |-> FALSE, on_start |-> FALSE, on_stop |-> FALSE]

\* An App whose run() has not been called.
InitApp ==
  /\ apc = "new"
  /\ appHandle = NULL
  /\ appFrees = 0
  /\ sinceTick = 0
  /\ elapsed_ms = 0
  /\ wait_ms = 0
  /\ evt = "None"
  /\ waited = 0
  /\ now2El = 0
  /\ tickDur = 0
  /\ calls = <<>>
  /\ iterEnd = "none"
  /\ failure = "None"
  /\ stopArgs = <<>>

(***************************************************************************)
(* Wrappers over a library build that may lack optional entry points:      *)
(* constructors, capability-gated operations, headless render helpers.     *)
(***************************************************************************)
\* The native constructor of each wrapper type.
NewFn(k) ==
  CASE k = "Terminal" -> "ratatui_init_terminal"
    [] k = "Paragraph" -> "ratatui_paragraph_new"
    [] k = "List" -> "ratatui_list_new"
    [] k = "Table" -> "ratatui_table_new"
    [] k = "Gauge" -> "ratatui_gauge_new"
    [] k = "Tabs" -> "ratatui_tabs_new"
    [] k = "BarChart" -> "ratatui_barchart_new"
    [] k = "Sparkline" -> "ratatui_sparkline_new"
    [] k = "Scrollbar" -> "ratatui_scrollbar_new"
    [] k = "Chart" -> "ratatui_chart_new"
    [] k = "ListState" -> "ratatui_list_state_new"
    [] k = "TableState" -> "ratatui_table_state_new"

\* The wrapper types whose constructor tests hasattr for its native new.
GatedKinds == {"Scrollbar", "ListState", "TableState"}

Op(k, op, fn, absent) == [kind |-> k, op |-> op, fn |-> fn, absent |-> absent]

\* The operations that test hasattr for their native entry point, and what
\* each does when it is absent: return ("noop"), return False ("False"), or
\* raise RuntimeError ("raise").
OptionalOps ==
  { Op("Paragraph", "set_style", "ratatui_paragraph_set_style", "noop"),
    Op("Paragraph", "set_wrap", "ratatui_paragraph_set_wrap", "noop"),
    Op("Paragraph", "set_scroll", "ratatui_paragraph_set_scroll", "noop"),
    Op("Paragraph", "reserve_lines", "ratatui_paragraph_reserve_lines", "noop"),
    Op("List", "set_direction", "ratatui_list_set_direction", "noop"),
    Op("List", "set_scroll_offset", "ratatui_list_set_scroll_offset", "noop"),
    Op("Table", "set_widths", "ratatui_table_set_widths", "noop"),
    Op("Table", "set_widths_percentages",
       "ratatui_table_set_widths_percentages", "noop"),
    Op("Table", "set_row_height", "ratatui_table_set_row_height", "noop"),
    Op("Table", "set_column_spacing", "ratatui_table_set_column_spacing", "noop"),
    Op("Table", "set_highlight_spacing",
       "ratatui_table_set_highlight_spacing", "noop"),
    Op("Terminal", "enable_raw", "ratatui_terminal_enable_raw", "noop"),
    Op("Terminal", "disable_raw", "ratatui_terminal_disable_raw", "noop"),
    Op("Terminal", "enter_alt", "ratatui_terminal_enter_alt", "noop"),
    Op("Terminal", "leave_alt", "ratatui_terminal_leave_alt", "noop"),
    Op("Terminal", "show_cursor", "ratatui_terminal_show_cursor", "noop"),
    Op("Terminal", "draw_clear", "ratatui_clear_in", "False"),
    Op("Terminal", "get_cursor_position",
       "ratatui_terminal_get_cursor_position", "raise"),
    Op("Terminal", "set_cursor_position",
       "ratatui_terminal_set_cursor_position", "raise"),
    Op("Terminal", "get_viewport_area",
       "ratatui_terminal_get_viewport_area", "raise"),
    Op("Terminal", "set_viewport_area",
       "ratatui_terminal_set_viewport_area", "raise") }

\* Every entry point the wrappers look up with hasattr before calling it.
OptionalFns == {NewFn(k) : k \in GatedKinds} \cup {op.fn : op \in OptionalOps}

\* The builds considered: every optional entry point, none of them, or all
\* but the constructor of one gated wrapper type.
Builds ==
  {OptionalFns, {}} \cup {OptionalFns \ {NewFn(k)} : k \in GatedKinds}

\* The objects this part constructs; the others exist from the start.
Built == {TermObj, 1}

\* What the present native call can make the operation do.
PresentOutcomes(op) ==
  CASE op.op = "draw_clear" -> {"True", "False"}
    [] op.op \in {"get_cursor_position", "get_viewport_area"} ->
         {"value", "RuntimeError: failed"}
    [] OTHER -> {"returned"}

\* What the operation does when its entry point is absent.
AbsentOutcome(op) ==
  CASE op.absent = "noop" -> "returned"
    [] op.absent = "False" -> "False"
    [] op.absent = "raise" -> "RuntimeError: not supported"

\* A call of an optional operation or of a headless render helper: the
\* native function, whether it was called, what the operation then did;
\* for a render helper also the flag and the buffer the native call handed
\* back, and the ratatui_string_free calls made.
Call(op, fn, made, outcome, ok, out, frees) ==
  [op |-> op, fn |-> fn, made |-> made, outcome |-> outcome, ok |-> ok,
   out |-> out, frees |-> frees]
NoCall == Call("none", "none", FALSE, "none", FALSE, FALSE, 0)


\* No scoped block has been entered.
InitScope ==
  /\ scStack = <<>>
  /\ scEntered = {}
  /\ scLog = <<>>
  /\ scExc = FALSE

\* None, for a path.
NoPath == 0

\* A library handle or a load error, named by the load attempt behind it.
Attempt(stage, n) == [stage |-> stage, n |-> n]
NoLib == Attempt("none", 0)

\* A Linux installation with a working bundled copy and nothing else.
BundledWorld ==
  [exists |-> {}, loads |-> {}, bundled |-> "ok", system |-> "absent",
   platform |-> "linux", defaults |-> {}]

\* load_library has not been called.
InitLoader ==
  /\ cached = NoLib
  /\ ldCachedBefore = NoLib
  /\ ldPath = NoPath
  /\ ldRet = NoLib
  /\ ldErr = NoLib
  /\ ldTried = <<>>
  /\ ldCalls = 0

\* A full build; every wrapper came out of its constructor.
InitFfi ==
  /\ caps = OptionalFns
  /\ ctor = [o \in Objs |-> "ok"]
  /\ newCalls = [o \in Objs |-> 1]
  /\ call = NoCall

\* Nothing has been split.
InitLayout ==
  /\ lyRect = <<0, 0, 0, 0>>
  /\ lyFr = <<1>>
  /\ lyGap = 0
  /\ lyFn = "none"
  /\ lyOut = <<>>
  /\ lyErr = "none"

\* The native color helpers of a full build.
ColorFns == {"ratatui_color_rgb", "ratatui_color_indexed"}

\* No color call made: no arguments, no result.
NoColor == [args |-> <<>>, ret |-> -1, native |-> FALSE]

\* A full build; no color helper called.
InitColor ==
  /\ colCaps = ColorFns
  /\ colRgb = NoColor
  /\ colIdx = NoColor

\* An empty input file; convert not called.
InitCast ==
  /\ castIn = <<>>
  /\ castOut = <<>>
  /\ castErr = "none"
  /\ castRan = FALSE

\* An empty README; nothing injected.
InitReadme ==
  /\ rdFile = <<>>
  /\ rdBefore = <<>>
  /\ rdBy = "none"
  /\ rdErr = "none"

\* next_event(50) returned None.
NoEvent == [kind |-> "none", code |-> 0, ch |-> ""]

\* run_demo_hub before its first iteration.
InitHub ==
  /\ idx = 0
  /\ code_scroll = 0
  /\ hubRun = "running"
  /\ hubDemo = 0
  /\ hubScroll = 0
  /\ hubFrame = "none"
  /\ hubCalls = <<>>
  /\ hubEvt = NoEvent
  /\ hubKeyTo = {}

\* A new List on a full build; append_items_spans not called.
InitList ==
  /\ lstBatch = TRUE
  /\ lstArg = <<>>
  /\ lstItems = <<>>
  /\ lstNative = -1
  /\ lstDone = FALSE

InitMore ==
  /\ InitColor
  /\ InitCast
  /\ InitReadme
  /\ InitHub
  /\ InitList

InitHelpers ==
  /\ InitScope
  /\ world = BundledWorld
  /\ InitLoader
  /\ InitFfi
  /\ InitLayout
  /\ InitMore

\* Every wrapper has been constructed: its native new call returned non-null.
Init ==
  /\ kind = [o \in Objs |-> FixedKind(o)]
  /\ InitWrappers
  /\ loop = FALSE
  /\ InitTask
  /\ app = RenderOnly
  /\ InitApp
  /\ InitHelpers

\* Widget 1 ranges over every widget wrapper type.
InitClose ==
  /\ \E k \in WidgetKinds :
       kind = [o \in Objs |-> IF o = 1 THEN k ELSE FixedKind(o)]
  /\ InitWrappers
  /\ loop = FALSE
  /\ InitTask
  /\ app = RenderOnly
  /\ InitApp
  /\ InitHelpers

(***************************************************************************)
(* close() and __del__                                                     *)
(***************************************************************************)
\* The body of close(): free the handle if it is set, then unset it.
CloseNoReset(o, by) ==
  IF handle[o] # NULL
  THEN /\ staleCall' = Native(FreeFn(kind[o]), <<handle[o]>>)
       /\ freed' = freed \cup {handle[o]}
       /\ freeCalls' = [freeCalls EXCEPT ![o] = Append(@, FreeFn(kind[o]))]
       /\ freedBy' = [freedBy EXCEPT ![o] = by]
       /\ UNCHANGED handle
  ELSE UNCHANGED <<nativeVars, handle>>

CloseBody(o, by) ==
  IF handle[o] # NULL
  THEN /\ staleCall' = Native(FreeFn(kind[o]), <<handle[o]>>)
       /\ freed' = freed \cup {handle[o]}
       /\ freeCalls' = [freeCalls EXCEPT ![o] = Append(@, FreeFn(kind[o]))]
       /\ freedBy' = [freedBy EXCEPT ![o] = by]
       /\ handle' = [handle EXCEPT ![o] = NULL]
  ELSE UNCHANGED <<nativeVars, handle>>

\* The program can reach wrapper o and is not inside draw_frame.
CanUse(o) == userRef[o] /\ ~finalized[o] /\ dfPc = "idle"

Close(o) ==
  /\ CanUse(o)
  /\ CloseBody(o, "close")
  /\ UNCHANGED <<kind, userRef, finalized, drawVars, frameVars, taskVars, appVars, helperVars>>

\* The program drops its own references to wrapper o.
DropRef(o) ==
  /\ CanUse(o)
  /\ userRef' = [userRef EXCEPT ![o] = FALSE]
  /\ UNCHANGED <<kind, handle, finalized, nativeVars, drawVars, frameVars, taskVars, appVars, helperVars>>

\* The wrappers some DrawCmd of list c names as its owner.
OwnersOf(c) == {c[i].owner : i \in DOMAIN c} \ {NoOwner}

\* Whether anything still refers to wrapper o.
Referenced(o) ==
  \/ userRef[o]
  \/ o \in OwnersOf(cmds) \cup OwnersOf(fCmds) \cup OwnersOf(dfArgs)
  \/ \E i \in DOMAIN owners : owners[i] = o
  \/ o = TermObj /\ fpc # "none"

\* __del__: runs once, when nothing refers to the wrapper; calls close().
Finalize(o) ==
  /\ ~finalized[o]
  /\ ~Referenced(o)
  /\ CloseBody(o, "finalizer")
  /\ finalized' = [finalized EXCEPT ![o] = TRUE]
  /\ UNCHANGED <<kind, userRef, drawVars, frameVars, taskVars, appVars, helperVars>>

\* An unguarded setter of wrapper o: passes _handle as it is.
Setter(o) ==
  /\ CanUse(o)
  /\ staleCall' = Native(SetterFn(kind[o]), <<handle[o]>>)
  /\ UNCHANGED <<wrapVars, freed, freeCalls, freedBy, drawVars, frameVars, taskVars, appVars, helperVars>>

NextClose ==
  \E o \in Objs : Close(o) \/ DropRef(o) \/ Finalize(o) \/ Setter(o)

SpecClose == InitClose /\ [][NextClose]_vars

(***************************************************************************)
(* Single-widget draws, DrawCmd and Terminal.draw_frame                    *)
(***************************************************************************)
\* Terminal.draw_<kind>(w, rect): passes both handles as they are.
DrawSingle(w, r) ==
  /\ CanUse(TermObj) /\ CanUse(w)
  /\ kind[w] \in DrawableKinds
  /\ staleCall' = Native(DrawFn(kind[w]), <<handle[TermObj], handle[w]>>)
  /\ UNCHANGED <<wrapVars, freed, freeCalls, freedBy, drawVars, frameVars, taskVars, appVars, helperVars>>

\* DrawCmd.<kind>(w, rect): copies the handle, keeps the wrapper as owner.
DrawCmdNoOwner(w, r) ==
  [kind |-> FFI_WIDGET_KIND[kind[w]], handle |-> handle[w], rect |-> r,
   owner |-> NoOwner]

DrawCmdOf(w, r) ==
  [kind |-> FFI_WIDGET_KIND[kind[w]], handle |-> handle[w], rect |-> r,
   owner |-> w]

\* The program appends a DrawCmd to its list.
NewCmd(w, r) ==
  /\ CanUse(w)
  /\ kind[w] \in DrawableKinds
  /\ Len(cmds) + Len(fCmds) < MaxCmds
  /\ cmds' = Append(cmds, DrawCmdOf(w, r))
  /\ UNCHANGED <<wrapVars, nativeVars, dfPc, dfCaller, dfArgs, arr, owners,
                 batch, batchCalls, nativeOk, dfRet, frameVars, taskVars, appVars, helperVars>>

\* The program drops its list of DrawCmds.
ClearCmds ==
  /\ dfPc = "idle"
  /\ cmds # <<>>
  /\ cmds' = <<>>
  /\ UNCHANGED <<wrapVars, nativeVars, dfPc, dfCaller, dfArgs, arr, owners,
                 batch, batchCalls, nativeOk, dfRet, frameVars, taskVars, appVars, helperVars>>

\* The loop of draw_frame: arr[i] = FfiDrawCmd(cmd.kind, cmd.handle, cmd.rect).
MarshalReversed(c) ==
  [i \in 1..Len(c) |->
     [kind |-> c[Len(c) + 1 - i].kind, handle |-> c[Len(c) + 1 - i].handle,
      rect |-> c[Len(c) + 1 - i].rect]]

Marshal(c) ==
  [i \in 1..Len(c) |->
     [kind |-> c[i].kind, handle |-> c[i].handle, rect |-> c[i].rect]]

\* owners: cmd.owner of every cmd that has one, in order.
OwnerList(c) ==
  SelectSeq([i \in 1..Len(c) |-> c[i].owner], LAMBDA o : o # NoOwner)

\* draw_frame(c) up to the native call: the array and the owners are built.
DrawFrameEnter(c, caller) ==
  /\ dfPc = "idle"
  /\ dfPc' = "marshalled"
  /\ dfCaller' = caller
  /\ dfArgs' = c
  /\ arr' = Marshal(c)
  /\ owners' = OwnerList(c)
  /\ UNCHANGED <<batch, batchCalls, nativeOk, dfRet>>

\* The program calls term.draw_frame(cmds).
UserDrawFrame ==
  /\ CanUse(TermObj)
  /\ DrawFrameEnter(cmds, "user")
  /\ UNCHANGED <<wrapVars, nativeVars, cmds, frameVars, taskVars, appVars, helperVars>>

\* ratatui_terminal_draw_frame(self._handle, arr, len(cmds)) and its flag.
DrawFrameNative ==
  /\ dfPc = "marshalled"
  /\ \E ok \in BOOLEAN :
       /\ nativeOk' = ok
       /\ dfRet' = ok
  /\ staleCall' = Native("ratatui_terminal_draw_frame",
                          <<handle[TermObj]>> \o
                            [i \in 1..Len(arr) |-> arr[i].handle])
  /\ batch' = arr
  /\ batchCalls' = batchCalls + 1
  /\ dfPc' = "returned"
  /\ UNCHANGED <<wrapVars, freed, freeCalls, freedBy, cmds, dfCaller, dfArgs,
                 arr, owners, frameVars, taskVars, appVars, helperVars>>

\* draw_frame returns: its locals go away; Frame.__exit__ stores the flag.
DrawFrameReturn ==
  /\ dfPc = "returned"
  /\ dfPc' = "idle"
  /\ dfArgs' = <<>>
  /\ arr' = <<>>
  /\ owners' = <<>>
  /\ batch' = <<>>
  /\ batchCalls' = 0
  /\ IF dfCaller = "frame"
     THEN /\ fOk' = BoolStr(dfRet)
          /\ fpc' = "exited"
     ELSE UNCHANGED <<fOk, fpc>>
  /\ UNCHANGED <<wrapVars, nativeVars, cmds, dfCaller, nativeOk, dfRet, fCmds,
                 fAppended, fDraws, taskVars, appVars, helperVars>>

(***************************************************************************)
(* Frame                                                                   *)
(***************************************************************************)
\* with Frame(term) as f:
FrameEnter ==
  /\ fpc = "none"
  /\ CanUse(TermObj)
  /\ fpc' = "entered"
  /\ fCmds' = <<>>
  /\ fOk' = "None"
  /\ fAppended' = <<>>
  /\ fDraws' = 0
  /\ UNCHANGED <<wrapVars, nativeVars, drawVars, taskVars, appVars, helperVars>>

\* f.<kind>(w, rect): self._cmds.append(DrawCmd.<kind>(w, rect)).
FrameAddFront(w, r) ==
  /\ fpc = "entered"
  /\ CanUse(w)
  /\ kind[w] \in DrawableKinds
  /\ Len(cmds) + Len(fCmds) < MaxCmds
  /\ fCmds' = <<DrawCmdOf(w, r)>> \o fCmds
  /\ fAppended' = Append(fAppended, DrawCmdOf(w, r))
  /\ UNCHANGED <<wrapVars, nativeVars, drawVars, fpc, fOk, fDraws, taskVars, appVars, helperVars>>

FrameAdd(w, r) ==
  /\ fpc = "entered"
  /\ CanUse(w)
  /\ kind[w] \in DrawableKinds
  /\ Len(cmds) + Len(fCmds) < MaxCmds
  /\ fCmds' = Append(fCmds, DrawCmdOf(w, r))
  /\ fAppended' = Append(fAppended, DrawCmdOf(w, r))
  /\ UNCHANGED <<wrapVars, nativeVars, drawVars, fpc, fOk, fDraws, taskVars, appVars, helperVars>>

\* f.extend(cmds): self._cmds.extend(cmds).
FrameExtend ==
  /\ fpc = "entered"
  /\ dfPc = "idle"
  /\ cmds # <<>>
  /\ Len(fCmds) + Len(cmds) < MaxCmds
  /\ fCmds' = fCmds \o cmds
  /\ fAppended' = fAppended \o cmds
  /\ UNCHANGED <<wrapVars, nativeVars, drawVars, fpc, fOk, fDraws, taskVars, appVars, helperVars>>

\* __exit__ with no exception: self.ok = self._term.draw_frame(self._cmds).
FrameExitNormal ==
  /\ fpc = "entered"
  /\ DrawFrameEnter(fCmds, "frame")
  /\ fpc' = "exiting"
  /\ fDraws' = fDraws + 1
  /\ UNCHANGED <<wrapVars, nativeVars, cmds, fCmds, fOk, fAppended, taskVars, appVars, helperVars>>

\* __exit__ with an exception raised in the block: nothing is done.
FrameExitRaise ==
  /\ fpc = "entered"
  /\ dfPc = "idle"
  /\ fpc' = "raised"
  /\ UNCHANGED <<wrapVars, nativeVars, drawVars, fCmds, fOk, fAppended,
                 fDraws, taskVars, appVars, helperVars>>

\* The program drops the Frame object.
FrameDiscard ==
  /\ fpc \in {"exited", "raised"}
  /\ dfPc = "idle"
  /\ fpc' = "none"
  /\ fCmds' = <<>>
  /\ fOk' = "None"
  /\ fAppended' = <<>>
  /\ fDraws' = 0
  /\ UNCHANGED <<wrapVars, nativeVars, drawVars, taskVars, appVars, helperVars>>

Next ==
  \/ \E o \in Objs : Close(o) \/ DropRef(o) \/ Finalize(o) \/ Setter(o)
  \/ \E w \in Widgets, r \in Rects :
       DrawSingle(w, r) \/ NewCmd(w, r) \/ FrameAdd(w, r)
  \/ ClearCmds
  \/ UserDrawFrame
  \/ DrawFrameNative
  \/ DrawFrameReturn
  \/ FrameEnter
  \/ FrameExtend
  \/ FrameExitNormal
  \/ FrameExitRaise
  \/ FrameDiscard

Spec == Init /\ [][Next]_vars

(***************************************************************************)
(* BackgroundTask                                                          *)
(***************************************************************************)
otherThanTask ==
  <<wrapVars, nativeVars, drawVars, frameVars, appVars, helperVars>>

\* Thread.is_alive(): started and run() not yet finished.
Alive(t) == wpc[t] \notin {"unborn", "done"}

\* start() while self._thread is alive: return at once.
StartNoop ==
  /\ opc = "idle"
  /\ thread # None /\ Alive(thread)
  /\ lastStart' = "noop"
  /\ UNCHANGED <<loop, stopFlag, lock, result, error, thread, wpc, res, exc,
                 spawned, opc, peeked, hist, lastRaised, stopAt, otherThanTask>>

\* start() otherwise: t = Thread(target=run); t.start().
StartSpawnUnguarded ==
  /\ opc = "idle"
  /\ spawned < MaxThreads
  /\ spawned' = spawned + 1
  /\ wpc' = [wpc EXCEPT ![spawned + 1] = IF loop THEN "check" ELSE "call"]
  /\ opc' = "assign"
  /\ lastStart' = "spawned"
  /\ UNCHANGED <<loop, stopFlag, lock, result, error, thread, res, exc,
                 peeked, hist, lastRaised, stopAt, otherThanTask>>

\* A start() that clears the stop request before it spawns.
StartSpawnClearsStop ==
  /\ opc = "idle"
  /\ ~(thread # None /\ Alive(thread))
  /\ spawned < MaxThreads
  /\ spawned' = spawned + 1
  /\ stopFlag' = FALSE
  /\ wpc' = [wpc EXCEPT ![spawned + 1] = IF loop THEN "check" ELSE "call"]
  /\ opc' = "assign"
  /\ lastStart' = "spawned"
  /\ UNCHANGED <<loop, lock, result, error, thread, res, exc,
                 peeked, hist, lastRaised, stopAt, otherThanTask>>

StartSpawn ==
  /\ opc = "idle"
  /\ ~(thread # None /\ Alive(thread))
  /\ spawned < MaxThreads
  /\ spawned' = spawned + 1
  /\ wpc' = [wpc EXCEPT ![spawned + 1] = IF loop THEN "check" ELSE "call"]
  /\ opc' = "assign"
  /\ lastStart' = "spawned"
  /\ UNCHANGED <<loop, stopFlag, lock, result, error, thread, res, exc,
                 peeked, hist, lastRaised, stopAt, otherThanTask>>

\* start(), last statement: self._thread = t.
StartAssign ==
  /\ opc = "assign"
  /\ thread' = spawned
  /\ opc' = "idle"
  /\ UNCHANGED <<loop, stopFlag, lock, result, error, wpc, res, exc, spawned,
                 peeked, hist, lastRaised, lastStart, stopAt, otherThanTask>>

\* Where the live worker is, for stopAt.
WorkerPlace ==
  IF \E t \in Threads : Alive(t)
  THEN wpc[CHOOSE t \in Threads : Alive(t)]
  ELSE "noworker"

\* stop(join, timeout): set the flag, then join the thread if asked to.
StopCall ==
  /\ opc = "idle"
  /\ stopFlag' = TRUE
  /\ stopAt' = IF stopFlag THEN stopAt ELSE WorkerPlace
  /\ \E j \in {"idle", "join", "join_timed"} :
       opc' = IF thread = None THEN "idle" ELSE j
  /\ UNCHANGED <<loop, lock, result, error, thread, wpc, res, exc, spawned,
                 peeked, hist, lastRaised, lastStart, otherThanTask>>

\* Thread.join returns: the thread has finished, or the timeout has run out.
JoinReturn ==
  /\ opc \in {"join", "join_timed"}
  /\ opc = "join_timed" \/ ~Alive(thread)
  /\ opc' = "idle"
  /\ UNCHANGED <<loop, stopFlag, lock, result, error, thread, wpc, res, exc,
                 spawned, peeked, hist, lastRaised, lastStart, stopAt,
                 otherThanTask>>

\* peek(): with self._lock:
PeekAcquire ==
  /\ opc = "idle"
  /\ lock = "free"
  /\ lock' = "owner"
  /\ opc' = "peek"
  /\ UNCHANGED <<loop, stopFlag, result, error, thread, wpc, res, exc,
                 spawned, peeked, hist, lastRaised, lastStart, stopAt,
                 otherThanTask>>

\* peek(): return self._result, releasing the lock.
PeekRead ==
  /\ opc = "peek"
  /\ peeked' = result
  /\ lock' = "free"
  /\ opc' = "idle"
  /\ UNCHANGED <<loop, stopFlag, result, error, thread, wpc, res, exc,
                 spawned, hist, lastRaised, lastStart, stopAt, otherThanTask>>

\* run(), loop mode: while not self._stop.is_set().
WorkerCheckIgnoresStop(t) ==
  /\ wpc[t] = "check"
  /\ wpc' = [wpc EXCEPT ![t] = "call"]
  /\ UNCHANGED <<loop, stopFlag, lock, result, error, thread, res, exc,
                 spawned, opc, peeked, hist, lastRaised, lastStart, stopAt,
                 otherThanTask>>

WorkerCheck(t) ==
  /\ wpc[t] = "check"
  /\ wpc' = [wpc EXCEPT ![t] = IF stopFlag THEN "done" ELSE "call"]
  /\ UNCHANGED <<loop, stopFlag, lock, result, error, thread, res, exc,
                 spawned, opc, peeked, hist, lastRaised, lastStart, stopAt,
                 otherThanTask>>

\* run(): the call self._fn(self) is entered.
WorkerCall(t) ==
  /\ wpc[t] = "call"
  /\ wpc' = [wpc EXCEPT ![t] = "running"]
  /\ UNCHANGED <<loop, stopFlag, lock, result, error, thread, res, exc,
                 spawned, opc, peeked, hist, lastRaised, lastStart, stopAt,
                 otherThanTask>>

\* The unit of work returns a value: res = self._fn(self).
WorkerReturn(t) ==
  /\ wpc[t] = "running"
  /\ \E v \in Results :
       /\ res' = [res EXCEPT ![t] = v]
       /\ hist' = <<hist[2], v>>
  /\ wpc' = [wpc EXCEPT ![t] = "lock"]
  /\ UNCHANGED <<loop, stopFlag, lock, result, error, thread, exc, spawned,
                 opc, peeked, lastRaised, lastStart, stopAt, otherThanTask>>

\* The unit of work raises.
WorkerRaise(t) ==
  /\ wpc[t] = "running"
  /\ \E e \in Errors :
       /\ exc' = [exc EXCEPT ![t] = e]
       /\ lastRaised' = e
  /\ wpc' = [wpc EXCEPT ![t] = "raised"]
  /\ UNCHANGED <<loop, stopFlag, lock, result, error, thread, res, spawned,
                 opc, peeked, hist, lastStart, stopAt, otherThanTask>>

\* except BaseException as e: self._error = e; run() ends.
WorkerCaptureNothing(t) ==
  /\ wpc[t] = "raised"
  /\ wpc' = [wpc EXCEPT ![t] = "done"]
  /\ UNCHANGED <<loop, stopFlag, lock, result, error, thread, res, exc,
                 spawned, opc, peeked, hist, lastRaised, lastStart, stopAt,
                 otherThanTask>>

WorkerCapture(t) ==
  /\ wpc[t] = "raised"
  /\ error' = exc[t]
  /\ wpc' = [wpc EXCEPT ![t] = "done"]
  /\ UNCHANGED <<loop, stopFlag, lock, result, thread, res, exc, spawned, opc,
                 peeked, hist, lastRaised, lastStart, stopAt, otherThanTask>>

\* with self._lock: (entered once the lock is free)
WorkerAcquire(t) ==
  /\ wpc[t] = "lock"
  /\ lock = "free"
  /\ lock' = "worker"
  /\ wpc' = [wpc EXCEPT ![t] = "store"]
  /\ UNCHANGED <<loop, stopFlag, result, error, thread, res, exc, spawned,
                 opc, peeked, hist, lastRaised, lastStart, stopAt,
                 otherThanTask>>

\* self._result = res, the lock released on leaving the with block; loop
\* mode goes back to the stop check, one-shot mode ends.
WorkerStoreSkipsResult(t) ==
  /\ wpc[t] = "store"
  /\ lock' = "free"
  /\ wpc' = [wpc EXCEPT ![t] = IF loop THEN "check" ELSE "done"]
  /\ UNCHANGED <<loop, stopFlag, result, error, thread, res, exc, spawned,
                 opc, peeked, hist, lastRaised, lastStart, stopAt,
                 otherThanTask>>

WorkerStore(t) ==
  /\ wpc[t] = "store"
  /\ result' = res[t]
  /\ lock' = "free"
  /\ wpc' = [wpc EXCEPT ![t] = IF loop THEN "check" ELSE "done"]
  /\ UNCHANGED <<loop, stopFlag, error, thread, res, exc, spawned, opc,
                 peeked, hist, lastRaised, lastStart, stopAt, otherThanTask>>

WorkerStep(t) ==
  \/ WorkerCheck(t)
  \/ WorkerCall(t)
  \/ WorkerReturn(t)
  \/ WorkerRaise(t)
  \/ WorkerCapture(t)
  \/ WorkerAcquire(t)
  \/ WorkerStore(t)

NextTask ==
  \/ StartNoop
  \/ StartSpawn
  \/ StartAssign
  \/ StopCall
  \/ JoinReturn
  \/ PeekAcquire
  \/ PeekRead
  \/ \E t \in Threads : WorkerStep(t)

\* A task in either mode, the wrappers untouched.
InitTaskSpec ==
  /\ kind = [o \in Objs |-> FixedKind(o)]
  /\ InitWrappers
  /\ loop \in BOOLEAN
  /\ InitTask
  /\ app = RenderOnly
  /\ InitApp
  /\ InitHelpers

SpecTask == InitTaskSpec /\ [][NextTask]_vars

\* The scheduler runs every thread that can take a step, every unit of work
\* ends, and a worker waiting for the lock gets it when it is free again
\* and again.
TaskFairness ==
  /\ \A t \in Threads :
       WF_vars(WorkerStep(t)) /\ SF_vars(WorkerAcquire(t))
  /\ WF_vars(PeekRead)
  /\ WF_vars(StartAssign)

SpecTaskFair == SpecTask /\ TaskFairness

(***************************************************************************)
(* App.run                                                                 *)
(*                                                                         *)
(* Time is counted in units of 1/UnitsPerMs millisecond; sinceTick is the  *)
(* time since last_tick.  A callback or a wait takes some whole number of  *)
(* units; the time between two adjacent statements of run() is taken as 0. *)
(***************************************************************************)
otherThanApp ==
  <<wrapVars, nativeVars, drawVars, frameVars, taskVars, helperVars>>

\* The longest time since last_tick that the model follows.
MaxElapsed == MaxTickMs * UnitsPerMs + MaxStep

Max(a, b) == IF a >= b THEN a ELSE b

\* elapsed_ms = int((now - last_tick) * 1000), for a time in units.
WholeMs(units) == units \div UnitsPerMs

\* A wait bound that leaves the elapsed time out.
WaitBudgetFull(tick, elapsed) == Max(0, tick)

\* wait_ms = max(0, self.tick_ms - elapsed_ms)
WaitBudget(tick, elapsed) == Max(0, tick - elapsed)

\* (now2 - last_tick) * 1000 >= self.tick_ms, for a time in units.
TickDue(units) == units >= app.tick_ms * UnitsPerMs

\* run() leaves the try block with failure f raised by callee c.
AppRaise(c, f) ==
  /\ apc' = "except"
  /\ failure' = f
  /\ calls' = Append(calls, c)
  /\ iterEnd' = IF iterEnd = "running" THEN "raised" ELSE iterEnd

\* with Terminal() as term: ratatui_init_terminal returns a pointer or null.
RunEnter ==
  /\ apc = "new"
  /\ \/ /\ appHandle' = Ptr(TermObj)
        /\ apc' = "entered"
        /\ UNCHANGED failure
     \/ /\ apc' = "raised"
        /\ failure' = "RuntimeError"
        /\ UNCHANGED appHandle
  /\ UNCHANGED <<app, appFrees, sinceTick, elapsed_ms, wait_ms, evt, waited,
                 now2El, tickDur, calls, iterEnd, stopArgs, otherThanApp>>

\* if self.on_start: self.on_start(term, state); last_tick = monotonic()
OnStart ==
  /\ apc = "entered"
  /\ \/ /\ apc' = "loop"
        /\ sinceTick' = 0
        /\ calls' = IF app.on_start THEN <<"on_start">> ELSE <<>>
        /\ UNCHANGED failure
     \/ /\ app.on_start
        /\ apc' = "with_exit"
        /\ failure' = "on_start"
        /\ calls' = <<"on_start">>
        /\ UNCHANGED sinceTick
  /\ UNCHANGED <<app, appHandle, appFrees, elapsed_ms, wait_ms, evt, waited,
                 now2El, tickDur, iterEnd, stopArgs, otherThanApp>>

\* What an iteration calls first: term.clear() if configured, then render.
FrameCalls ==
  IF app.clear_each_frame THEN <<"clear", "render">> ELSE <<"render">>

\* The head of an iteration: clear, render, now = monotonic(), elapsed_ms,
\* wait_ms.  render takes d units, or raises.
Render ==
  /\ apc = "loop"
  /\ \/ \E d \in 0..MaxStep :
          /\ sinceTick + d <= MaxElapsed
          /\ sinceTick' = sinceTick + d
          /\ elapsed_ms' = WholeMs(sinceTick + d)
          /\ wait_ms' = WaitBudget(app.tick_ms, WholeMs(sinceTick + d))
          /\ apc' = "wait"
          /\ calls' = FrameCalls
          /\ iterEnd' = "running"
          /\ UNCHANGED failure
     \/ /\ apc' = "except"
        /\ failure' = "render"
        /\ calls' = FrameCalls
        /\ iterEnd' = "raised"
        /\ UNCHANGED <<sinceTick, elapsed_ms, wait_ms>>
  /\ UNCHANGED <<app, appHandle, appFrees, evt, waited, now2El, tickDur,
                 stopArgs, otherThanApp>>

\* evt = term.next_event(wait_ms): an event arrives within the bound, or an
\* event of no known kind does (evt is None), or the bound expires, or the
\* wait is interrupted by a failure.
NextEvent ==
  /\ apc = "wait"
  /\ \/ \E d \in 0..(wait_ms * UnitsPerMs), e \in {"key", "None"} :
          /\ evt' = e
          /\ waited' = d
          /\ sinceTick' = sinceTick + d
          /\ apc' = "dispatch"
          /\ calls' = Append(calls, "next_event")
          /\ UNCHANGED <<failure, iterEnd>>
     \/ /\ AppRaise("next_event", "next_event")
        /\ UNCHANGED <<evt, waited, sinceTick>>
  /\ UNCHANGED <<app, appHandle, appFrees, elapsed_ms, wait_ms, now2El,
                 tickDur, stopArgs, otherThanApp>>

\* on_event returning False handled like any other return value.
DispatchFallsThrough ==
  /\ apc = "dispatch"
  /\ IF evt # "None" /\ app.on_event
     THEN \/ \E d \in 0..MaxStep, keep_going \in {"True", "False", "None"} :
               /\ sinceTick + d <= MaxElapsed
               /\ sinceTick' = sinceTick + d
               /\ calls' = Append(calls, "on_event")
               /\ apc' = "tick"
               /\ iterEnd' = IF keep_going = "False" THEN "break" ELSE iterEnd
               /\ UNCHANGED failure
          \/ /\ AppRaise("on_event", "on_event")
             /\ UNCHANGED sinceTick
     ELSE /\ apc' = "tick"
          /\ UNCHANGED <<sinceTick, calls, iterEnd, failure>>
  /\ UNCHANGED <<app, appHandle, appFrees, elapsed_ms, wait_ms, evt, waited,
                 now2El, tickDur, stopArgs, otherThanApp>>

\* if evt is not None and self.on_event is not None: the handler takes d
\* units and returns True, False or something else, or raises.  Only False
\* leaves the loop.
Dispatch ==
  /\ apc = "dispatch"
  /\ IF evt # "None" /\ app.on_event
     THEN \/ \E d \in 0..MaxStep, keep_going \in {"True", "False", "None"} :
               /\ sinceTick + d <= MaxElapsed
               /\ sinceTick' = sinceTick + d
               /\ calls' = Append(calls, "on_event")
               /\ IF keep_going = "False"
                  THEN apc' = "else" /\ iterEnd' = "break"
                  ELSE apc' = "tick" /\ UNCHANGED iterEnd
               /\ UNCHANGED failure
          \/ /\ AppRaise("on_event", "on_event")
             /\ UNCHANGED sinceTick
     ELSE /\ apc' = "tick"
          /\ UNCHANGED <<sinceTick, calls, iterEnd, failure>>
  /\ UNCHANGED <<app, appHandle, appFrees, elapsed_ms, wait_ms, evt, waited,
                 now2El, tickDur, stopArgs, otherThanApp>>

\* now2 = monotonic(); if the tick is due: on_tick if given (it takes d
\* units, or raises), then last_tick = now2.
TickCheck ==
  /\ apc = "tick"
  /\ now2El' = sinceTick
  /\ IF TickDue(sinceTick)
     THEN IF app.on_tick
          THEN \/ \E d \in 0..MaxStep :
                    /\ sinceTick' = d
                    /\ tickDur' = d
                    /\ calls' = Append(calls, "on_tick")
                    /\ apc' = "loop"
                    /\ iterEnd' = "completed"
                    /\ UNCHANGED failure
               \/ /\ AppRaise("on_tick", "on_tick")
                  /\ UNCHANGED <<sinceTick, tickDur>>
          ELSE /\ sinceTick' = 0
               /\ tickDur' = 0
               /\ apc' = "loop"
               /\ iterEnd' = "completed"
               /\ UNCHANGED <<calls, failure>>
     ELSE /\ apc' = "loop"
          /\ iterEnd' = "completed"
          /\ UNCHANGED <<sinceTick, tickDur, calls, failure>>
  /\ UNCHANGED <<app, appHandle, appFrees, elapsed_ms, wait_ms, evt, waited,
                 stopArgs, otherThanApp>>

\* An except clause that re-raises without telling on_stop.
ExceptClauseSilent ==
  /\ apc = "except"
  /\ apc' = "with_exit"
  /\ UNCHANGED <<stopArgs, calls, failure>>
  /\ UNCHANGED <<app, appHandle, appFrees, sinceTick, elapsed_ms, wait_ms,
                 evt, waited, now2El, tickDur, iterEnd, otherThanApp>>

\* except BaseException as e: on_stop(e, term, state) if given; raise.
\* A failure of on_stop takes the place of e.
ExceptClause ==
  /\ apc = "except"
  /\ apc' = "with_exit"
  /\ IF app.on_stop
     THEN /\ stopArgs' = Append(stopArgs, failure)
          /\ calls' = Append(calls, "on_stop")
          /\ failure' \in {failure, "on_stop"}
     ELSE UNCHANGED <<stopArgs, calls, failure>>
  /\ UNCHANGED <<app, appHandle, appFrees, sinceTick, elapsed_ms, wait_ms,
                 evt, waited, now2El, tickDur, iterEnd, otherThanApp>>

\* else: on_stop(None, term, state) if given.
ElseClause ==
  /\ apc = "else"
  /\ apc' = "with_exit"
  /\ IF app.on_stop
     THEN /\ stopArgs' = Append(stopArgs, "None")
          /\ calls' = Append(calls, "on_stop")
          /\ failure' \in {"None", "on_stop"}
     ELSE UNCHANGED <<stopArgs, calls, failure>>
  /\ UNCHANGED <<app, appHandle, appFrees, sinceTick, elapsed_ms, wait_ms,
                 evt, waited, now2El, tickDur, iterEnd, otherThanApp>>

\* A with block whose exit leaves the Terminal open.
WithExitNoClose ==
  /\ apc = "with_exit"
  /\ UNCHANGED <<appFrees, appHandle>>
  /\ apc' = IF failure = "None" THEN "returned" ELSE "raised"
  /\ UNCHANGED <<app, sinceTick, elapsed_ms, wait_ms, evt, waited, now2El,
                 tickDur, calls, iterEnd, failure, stopArgs, otherThanApp>>

\* Terminal.__exit__: close(); run() then returns, or the failure goes on.
WithExit ==
  /\ apc = "with_exit"
  /\ IF appHandle # NULL
     THEN appFrees' = appFrees + 1 /\ appHandle' = NULL
     ELSE UNCHANGED <<appFrees, appHandle>>
  /\ apc' = IF failure = "None" THEN "returned" ELSE "raised"
  /\ UNCHANGED <<app, sinceTick, elapsed_ms, wait_ms, evt, waited, now2El,
                 tickDur, calls, iterEnd, failure, stopArgs, otherThanApp>>

NextApp ==
  \/ RunEnter
  \/ OnStart
  \/ Render
  \/ NextEvent
  \/ Dispatch
  \/ TickCheck
  \/ ExceptClause
  \/ ElseClause
  \/ WithExit

\* One App in any configuration, one call of run().
InitAppSpec ==
  /\ kind = [o \in Objs |-> FixedKind(o)]
  /\ InitWrappers
  /\ loop = FALSE
  /\ InitTask
  /\ app \in AppConfigs
  /\ InitApp
  /\ InitHelpers

SpecApp == InitAppSpec /\ [][NextApp]_vars

(***************************************************************************)
(* Scoped blocks: with Terminal() as term, with raw_mode(), with           *)
(* alt_screen().  Blocks nest; a failure raised in a block leaves every    *)
(* enclosing block, running each __exit__ on its way.                      *)
(***************************************************************************)
Managers == {"Terminal", "raw_mode", "alt_screen"}

\* The native call of a scoped helper's __enter__.
EnterCall(mgr) ==
  CASE mgr = "raw_mode" -> "ratatui_terminal_enable_raw"
    [] mgr = "alt_screen" -> "ratatui_terminal_enter_alt"

\* The native call of a scoped helper's __exit__.
ExitCall(mgr) ==
  CASE mgr = "raw_mode" -> "ratatui_terminal_disable_raw"
    [] mgr = "alt_screen" -> "ratatui_terminal_leave_alt"

InScope(mgr) == \E i \in DOMAIN scStack : scStack[i] = mgr

Innermost == scStack[Len(scStack)]

\* with mgr: ...  (__enter__).  Terminal.__enter__ returns self.
ScopeEnter(mgr) ==
  /\ ~scExc
  /\ mgr \notin scEntered
  /\ mgr = "Terminal" => CanUse(TermObj)
  /\ scStack' = Append(scStack, mgr)
  /\ scEntered' = scEntered \cup {mgr}
  /\ scLog' = IF mgr = "Terminal" THEN scLog ELSE Append(scLog, EnterCall(mgr))
  /\ UNCHANGED <<scExc, wrapVars, nativeVars, drawVars, frameVars, taskVars,
                 appVars, loadVars, ffiVars, layoutVars, moreVars>>

\* The code of the innermost block raises.
BodyRaise ==
  /\ scStack # <<>>
  /\ ~scExc
  /\ scExc' = TRUE
  /\ UNCHANGED <<scStack, scEntered, scLog, wrapVars, nativeVars, drawVars,
                 frameVars, taskVars, appVars, loadVars, ffiVars, layoutVars, moreVars>>

\* An __exit__ that does nothing when a failure is on its way out.
ScopeExitSkipsOnFailure ==
  /\ scStack # <<>>
  /\ scStack' = SubSeq(scStack, 1, Len(scStack) - 1)
  /\ IF Innermost = "Terminal"
     THEN /\ IF scExc THEN UNCHANGED <<nativeVars, handle>>
                      ELSE CloseBody(TermObj, "close")
          /\ UNCHANGED scLog
     ELSE /\ scLog' = IF scExc THEN scLog
                      ELSE Append(scLog, ExitCall(Innermost))
          /\ UNCHANGED <<nativeVars, handle>>
  /\ UNCHANGED <<scEntered, scExc, kind, userRef, finalized, drawVars,
                 frameVars, taskVars, appVars, loadVars, ffiVars, layoutVars, moreVars>>

\* The innermost block is left, by its end or by a failure: __exit__ runs
\* (Terminal: close(); the helpers: their disable / leave call) and returns
\* None, so a failure goes on to the enclosing block.
ScopeExit ==
  /\ scStack # <<>>
  /\ scStack' = SubSeq(scStack, 1, Len(scStack) - 1)
  /\ IF Innermost = "Terminal"
     THEN /\ CloseBody(TermObj, "close")
          /\ UNCHANGED scLog
     ELSE /\ scLog' = Append(scLog, ExitCall(Innermost))
          /\ UNCHANGED <<nativeVars, handle>>
  /\ UNCHANGED <<scEntered, scExc, kind, userRef, finalized, drawVars,
                 frameVars, taskVars, appVars, loadVars, ffiVars, layoutVars, moreVars>>

\* What the program does with the Terminal besides the blocks: close()
\* anywhere, a native call inside a block, dropping it once its block is
\* left, and its finalizer.
TerminalUse ==
  /\ scEntered # {}
  /\ \/ ~scExc /\ Close(TermObj)
     \/ ~scExc /\ scStack # <<>> /\ Setter(TermObj)
     \/ ~InScope("Terminal") /\ scStack = <<>> /\ DropRef(TermObj)
     \/ ~InScope("Terminal") /\ Finalize(TermObj)

\* The program calls App.run, having used no scoped block of its own.
RunOnly ==
  /\ scEntered = {}
  /\ RunEnter

\* The program opens a scoped block of its own, not having called App.run.
BlockEnter(mgr) ==
  /\ apc = "new"
  /\ ScopeEnter(mgr)

\* A program that either calls App.run or uses scoped blocks of its own.
NextScope ==
  \/ RunOnly
  \/ OnStart
  \/ Render
  \/ NextEvent
  \/ Dispatch
  \/ TickCheck
  \/ ExceptClause
  \/ ElseClause
  \/ WithExit
  \/ \E mgr \in Managers : BlockEnter(mgr)
  \/ BodyRaise
  \/ ScopeExit
  \/ TerminalUse

InitScopeSpec ==
  /\ kind = [o \in Objs |-> FixedKind(o)]
  /\ InitWrappers
  /\ loop = FALSE
  /\ InitTask
  /\ app \in AppConfigs
  /\ InitApp
  /\ InitHelpers

SpecScope == InitScopeSpec /\ [][NextScope]_vars

(***************************************************************************)
(* load_library (_ffi.py)                                                  *)
(*                                                                         *)
(* world is what the process finds outside itself: which candidate paths   *)
(* name an existing file, which of them the dynamic loader accepts, the    *)
(* bundled copy, the linker's search, the default file names.  A library   *)
(* handle, and a load error, is named by the load attempt it came from.    *)
(***************************************************************************)
Paths == 1..NumPaths

Platforms == {"win32", "darwin", "linux"}

\* _default_names(): how many names the platform has.
DefaultNames(platform) == IF platform = "linux" THEN 1..2 ELSE 1..1

Worlds ==
  { w \in [exists : SUBSET Paths, loads : SUBSET Paths,
           bundled : {"absent", "broken", "ok"},
           system : {"absent", "broken", "ok"},
           platform : Platforms, defaults : SUBSET (1..2)] :
      w.defaults \subseteq DefaultNames(w.platform) }

\* path = explicit or os.getenv("RATATUI_FFI_LIB")
EffectivePath(explicit, env) == IF explicit # NoPath THEN explicit ELSE env

\* The outcome of a discovery: the handle, the error raised, the loads tried.
Outcome(lib, err, tried) == [lib |-> lib, err |-> err, tried |-> tried]

\* Stage 4: the default names in order; the first that loads wins, and if
\* none does the error of the last one is raised.
RECURSIVE TryDefaults(_, _, _)
TryDefaults(w, k, tried) ==
  IF k \notin DefaultNames(w.platform)
  THEN Outcome(NoLib, tried[Len(tried)], tried)
  ELSE IF k \in w.defaults
       THEN Outcome(Attempt("default", k), NoLib,
                    Append(tried, Attempt("default", k)))
       ELSE TryDefaults(w, k + 1, Append(tried, Attempt("default", k)))

\* Stage 3: find_library("ratatui_ffi"), then CDLL of the name found.
TrySystem(w, tried) ==
  IF w.system = "ok"
  THEN Outcome(Attempt("system", 0), NoLib, Append(tried, Attempt("system", 0)))
  ELSE TryDefaults(w, 1, IF w.system = "broken"
                         THEN Append(tried, Attempt("system", 0))
                         ELSE tried)

\* Stage 2: the bundled copy, if the file is there.
TryBundled(w, tried) ==
  IF w.bundled = "ok"
  THEN Outcome(Attempt("bundled", 0), NoLib, Append(tried, Attempt("bundled", 0)))
  ELSE TrySystem(w, IF w.bundled = "broken"
                    THEN Append(tried, Attempt("bundled", 0))
                    ELSE tried)

\* The body of load_library below the cache test: CDLL(path) if path names
\* an existing file, with no handler around it; the other stages otherwise.
Discover(w, path) ==
  IF path # NoPath /\ path \in w.exists
  THEN IF path \in w.loads
       THEN Outcome(Attempt("path", path), NoLib, <<Attempt("path", path)>>)
       ELSE Outcome(NoLib, Attempt("path", path), <<Attempt("path", path)>>)
  ELSE TryBundled(w, <<>>)

\* A load_library that does not look at the cache.
LoadLibraryUncached(explicit, env) ==
  LET o == Discover(world, EffectivePath(explicit, env)) IN
    /\ ldCachedBefore' = cached
    /\ ldPath' = EffectivePath(explicit, env)
    /\ ldRet' = o.lib
    /\ ldErr' = o.err
    /\ ldTried' = o.tried
    /\ cached' = IF o.lib # NoLib THEN o.lib ELSE cached
    /\ ldCalls' = IF ldCalls < MaxCalls THEN ldCalls + 1 ELSE ldCalls
    /\ UNCHANGED <<world, scopeVars, wrapVars, nativeVars, drawVars,
                   frameVars, taskVars, appVars, ffiVars,
                   layoutVars, moreVars>>

\* load_library(explicit), RATATUI_FFI_LIB being env.  The signatures are
\* configured on a library that has every required entry point.
LoadLibrary(explicit, env) ==
  LET o == IF cached # NoLib
           THEN Outcome(cached, NoLib, <<>>)
           ELSE Discover(world, EffectivePath(explicit, env)) IN
    /\ ldCachedBefore' = cached
    /\ ldPath' = EffectivePath(explicit, env)
    /\ ldRet' = o.lib
    /\ ldErr' = o.err
    /\ ldTried' = o.tried
    /\ cached' = IF o.lib # NoLib THEN o.lib ELSE cached
    /\ ldCalls' = IF ldCalls < MaxCalls THEN ldCalls + 1 ELSE ldCalls
    /\ UNCHANGED <<world, scopeVars, wrapVars, nativeVars, drawVars,
                   frameVars, taskVars, appVars, ffiVars,
                   layoutVars, moreVars>>

NextLoad == \E explicit, env \in {NoPath} \cup Paths : LoadLibrary(explicit, env)

InitLoadSpec ==
  /\ kind = [o \in Objs |-> FixedKind(o)]
  /\ InitWrappers
  /\ loop = FALSE
  /\ InitTask
  /\ app = RenderOnly
  /\ InitApp
  /\ InitScope
  /\ world \in Worlds
  /\ InitLoader
  /\ InitFfi
  /\ InitLayout
  /\ InitMore

SpecLoad == InitLoadSpec /\ [][NextLoad]_vars

(***************************************************************************)
(* Constructors, optional operations and headless render helpers           *)
(***************************************************************************)
ffiOthers ==
  <<drawVars, frameVars, taskVars, appVars, scopeVars, loadVars, layoutVars, moreVars>>

\* A constructor that calls the native new without looking for it first.
ConstructUnguarded(o) ==
  /\ o \in Built
  /\ ctor[o] = "none"
  /\ newCalls' = [newCalls EXCEPT ![o] = @ + 1]
  /\ \/ /\ NewFn(kind[o]) \in caps \/ kind[o] \notin GatedKinds
        /\ ctor' = [ctor EXCEPT ![o] = "ok"]
        /\ handle' = [handle EXCEPT ![o] = Ptr(o)]
        /\ userRef' = [userRef EXCEPT ![o] = TRUE]
     \/ /\ ctor' = [ctor EXCEPT ![o] = "null"]
        /\ UNCHANGED <<handle, userRef>>
  /\ UNCHANGED <<kind, finalized, nativeVars, caps, call, ffiOthers>>

\* The constructor of wrapper o: a gated type raises when its native new is
\* absent; otherwise the native new is called and a null result raises.
\* A constructor that raises leaves no reference to the object and no
\* _handle on it.
Construct(o) ==
  /\ o \in Built
  /\ ctor[o] = "none"
  /\ IF kind[o] \in GatedKinds /\ NewFn(kind[o]) \notin caps
     THEN /\ ctor' = [ctor EXCEPT ![o] = "unsupported"]
          /\ UNCHANGED <<newCalls, handle, userRef>>
     ELSE /\ newCalls' = [newCalls EXCEPT ![o] = @ + 1]
          /\ \/ /\ ctor' = [ctor EXCEPT ![o] = "ok"]
                /\ handle' = [handle EXCEPT ![o] = Ptr(o)]
                /\ userRef' = [userRef EXCEPT ![o] = TRUE]
             \/ /\ ctor' = [ctor EXCEPT ![o] = "null"]
                /\ UNCHANGED <<handle, userRef>>
  /\ UNCHANGED <<kind, finalized, nativeVars, caps, call, ffiOthers>>

\* An optional operation that calls its entry point without looking for it.
OptionalOpUnguarded(o, op) ==
  /\ CanUse(o)
  /\ ctor[o] = "ok"
  /\ op.kind = kind[o]
  /\ \E outcome \in PresentOutcomes(op) :
       call' = Call(op.op, op.fn, TRUE, outcome, FALSE, FALSE, 0)
  /\ staleCall' = Native(op.fn, <<handle[o]>>)
  /\ UNCHANGED <<wrapVars, freed, freeCalls, freedBy, caps, ctor, newCalls,
                 ffiOthers>>

\* An optional operation op of wrapper o: the native call if the entry
\* point is there, else nothing, False or RuntimeError.
OptionalOp(o, op) ==
  /\ CanUse(o)
  /\ ctor[o] = "ok"
  /\ op.kind = kind[o]
  /\ IF op.fn \in caps
     THEN /\ \E outcome \in PresentOutcomes(op) :
               call' = Call(op.op, op.fn, TRUE, outcome, FALSE, FALSE, 0)
          /\ staleCall' = Native(op.fn, <<handle[o]>>)
     ELSE /\ call' = Call(op.op, op.fn, FALSE, AbsentOutcome(op), FALSE, FALSE, 0)
          /\ UNCHANGED staleCall
  /\ UNCHANGED <<wrapVars, freed, freeCalls, freedBy, caps, ctor, newCalls,
                 ffiOthers>>

\* headless_render_<kind>(width, height, w): the native call hands back a
\* flag and possibly a buffer; "" is returned at once unless both are set,
\* and otherwise the buffer is decoded and then freed.
HeadlessRender(w) ==
  /\ CanUse(w)
  /\ ctor[w] = "ok"
  /\ kind[w] \in DrawableKinds
  /\ \E ok \in BOOLEAN, out \in BOOLEAN :
       call' = IF ~ok \/ ~out
               THEN Call("headless_render", "ratatui_headless_render", TRUE,
                         "empty", ok, out, 0)
               ELSE Call("headless_render", "ratatui_headless_render", TRUE,
                         "text", ok, out, 1)
  /\ staleCall' = Native("ratatui_headless_render", <<handle[w]>>)
  /\ UNCHANGED <<wrapVars, freed, freeCalls, freedBy, caps, ctor, newCalls,
                 ffiOthers>>

\* close(), dropping the last reference, and __del__ of a wrapper whose
\* constructor has run.
Lifecycle(o) ==
  /\ ctor[o] # "none"
  /\ Close(o) \/ DropRef(o) \/ Finalize(o)

NextFfi ==
  \/ \E o \in Built : Construct(o)
  \/ \E o \in Built, op \in OptionalOps : OptionalOp(o, op)
  \/ \E w \in Built \ {TermObj} : HeadlessRender(w)
  \/ \E o \in Built : Lifecycle(o)

\* Nothing in Built has been constructed; widget 1 is of any wrapper type.
InitFfiSpec ==
  /\ \E k \in WidgetKinds :
       kind = [o \in Objs |-> IF o = 1 THEN k ELSE FixedKind(o)]
  /\ handle = [o \in Objs |-> IF o \in Built THEN NULL ELSE Ptr(o)]
  /\ userRef = [o \in Objs |-> o \notin Built]
  /\ finalized = [o \in Objs |-> FALSE]
  /\ freed = {}
  /\ freeCalls = [o \in Objs |-> <<>>]
  /\ freedBy = [o \in Objs |-> "none"]
  /\ staleCall = FALSE
  /\ cmds = <<>>
  /\ dfPc = "idle"
  /\ dfCaller = "user"
  /\ dfArgs = <<>>
  /\ arr = <<>>
  /\ owners = <<>>
  /\ batch = <<>>
  /\ batchCalls = 0
  /\ nativeOk = FALSE
  /\ dfRet = FALSE
  /\ fpc = "none"
  /\ fCmds = <<>>
  /\ fOk = "None"
  /\ fAppended = <<>>
  /\ fDraws = 0
  /\ loop = FALSE
  /\ InitTask
  /\ app = RenderOnly
  /\ InitApp
  /\ InitScope
  /\ world = BundledWorld
  /\ InitLoader
  /\ caps \in Builds
  /\ ctor = [o \in Objs |-> IF o \in Built THEN "none" ELSE "ok"]
  /\ newCalls = [o \in Objs |-> IF o \in Built THEN 0 ELSE 1]
  /\ call = NoCall
  /\ InitLayout
  /\ InitMore

SpecFfi == InitFfiSpec /\ [][NextFfi]_vars

(***************************************************************************)
(* layout.py: split_h and split_v                                          *)
(*                                                                         *)
(* A rect is <<x, y, w, h>>.  A fraction is a multiple of 1/FracDen, given *)
(* by its numerator, so that avail * (f / fr_sum) is an exact rational;    *)
(* round() is Python's, to the nearest integer and to the even one of two  *)
(* equally near.                                                           *)
(***************************************************************************)
FracDen == 4

LayoutRects ==
  {<<x, y, w, h>> : x \in 0..MaxOrigin, y \in 0..MaxOrigin,
                    w \in 0..MaxSide, h \in 0..MaxSide}

\* The non-empty fraction lists of at most MaxFracs entries.
FractionLists ==
  UNION {[1..n -> 0..MaxFrac] : n \in 1..MaxFracs}

RECURSIVE SumSeq(_)
SumSeq(s) == IF s = <<>> THEN 0 ELSE s[1] + SumSeq(Tail(s))

\* int(round(p / q)) for p >= 0, q > 0.
RoundHalfEven(p, q) ==
  LET fl == p \div q
      twice == 2 * (p % q)
  IN IF twice < q THEN fl
     ELSE IF twice > q THEN fl + 1
     ELSE IF fl % 2 = 0 THEN fl ELSE fl + 1

\* avail = max(0, length - max(0, (len(fractions) - 1) * gap))
Avail(length, fr, gap) == Max(0, length - Max(0, (Len(fr) - 1) * gap))

\* sum(fractions) without the fallback of "or 1.0".
fr_sumNoFallback(fr) == SumSeq(fr)

\* fr_sum = sum(fractions) or 1.0, in units of 1/FracDen.
fr_sum(fr) == IF SumSeq(fr) = 0 THEN FracDen ELSE SumSeq(fr)

\* f / fr_sum is evaluated for every fraction but the last; it raises
\* ZeroDivisionError when fr_sum is 0.
ZeroDivision(fr) == Len(fr) > 1 /\ fr_sum(fr) = 0

\* int(round(avail * (f / fr_sum)))
Portion(avail, f, fr) == RoundHalfEven(avail * f, fr_sum(fr))

\* The loop of split_h / split_v from index i on, the running offset being
\* pos: each entry is <<offset, size>>, the size before max(0, .); the last
\* segment takes what is left up to start + length.
RECURSIVE Segments(_, _, _, _, _, _)
Segments(start, length, fr, gap, i, pos) ==
  IF i > Len(fr) THEN <<>>
  ELSE LET size == IF i < Len(fr)
                   THEN Portion(Avail(length, fr, gap), fr[i], fr)
                   ELSE start + length - pos
       IN <<<<pos, size>>>> \o
          Segments(start, length, fr, gap, i + 1,
                   pos + size + (IF i < Len(fr) THEN gap ELSE 0))

split_h(rect, fr, gap) ==
  LET segs == Segments(rect[2], rect[4], fr, gap, 1, rect[2])
  IN [i \in 1..Len(fr) |-> <<rect[1], segs[i][1], rect[3], Max(0, segs[i][2])>>]

split_v(rect, fr, gap) ==
  LET segs == Segments(rect[1], rect[3], fr, gap, 1, rect[1])
  IN [i \in 1..Len(fr) |-> <<segs[i][1], rect[2], Max(0, segs[i][2]), rect[4]>>]

\* split_v(lyRect, *lyFr, gap=lyGap)
ApplySplitV ==
  /\ lyFn' = "split_v"
  /\ lyErr' = IF ZeroDivision(lyFr) THEN "ZeroDivisionError" ELSE "none"
  /\ lyOut' = IF ZeroDivision(lyFr) THEN <<>> ELSE split_v(lyRect, lyFr, lyGap)
  /\ UNCHANGED <<lyRect, lyFr, lyGap, wrapVars, nativeVars, drawVars,
                 frameVars, taskVars, appVars, scopeVars, loadVars, ffiVars,
                 moreVars>>

\* split_h(lyRect, *lyFr, gap=lyGap)
ApplySplitH ==
  /\ lyFn' = "split_h"
  /\ lyErr' = IF ZeroDivision(lyFr) THEN "ZeroDivisionError" ELSE "none"
  /\ lyOut' = IF ZeroDivision(lyFr) THEN <<>> ELSE split_h(lyRect, lyFr, lyGap)
  /\ UNCHANGED <<lyRect, lyFr, lyGap, wrapVars, nativeVars, drawVars,
                 frameVars, taskVars, appVars, scopeVars, loadVars, ffiVars,
                 moreVars>>

NextLayout == ApplySplitV \/ ApplySplitH

\* Any rect, fraction list and gap within the bounds; nothing split yet.
InitLayoutSpec ==
  /\ kind = [o \in Objs |-> FixedKind(o)]
  /\ InitWrappers
  /\ loop = FALSE
  /\ InitTask
  /\ app = RenderOnly
  /\ InitApp
  /\ InitScope
  /\ world = BundledWorld
  /\ InitLoader
  /\ InitFfi
  /\ lyRect \in LayoutRects
  /\ lyFr \in FractionLists
  /\ lyGap \in 0..MaxGap
  /\ lyFn = "none"
  /\ lyOut = <<>>
  /\ lyErr = "none"
  /\ InitMore

SpecLayout == InitLayoutSpec /\ [][NextLayout]_vars

(***************************************************************************)
(* wrappers.py: rgb and color_indexed                                      *)
(*                                                                         *)
(* A color code is a 32-bit word, written <<high, low>> with two 16-bit    *)
(* halves.  Python's integers are two's complement of unbounded width:     *)
(* x & m for m >= 0 takes the low bits of x also when x is negative.       *)
(***************************************************************************)
\* The integers given as r, g, b and i: inside and outside 0..255.
ColorArgs == {-1, 0, 200, 256, 261}

\* The 32-bit word of n, 0 <= n < 2^31.
Word(n) == <<n \div 65536, n % 65536>>

\* What a native color helper may return: opaque to the wrapper.
OpaqueColors == {Word(5), Word(1073741829)}

RECURSIVE BitAnd(_, _)
\* x & m, m >= 0
BitAnd(x, m) ==
  IF m = 0 THEN 0
  ELSE (x % 2) * (m % 2) + 2 * BitAnd(x \div 2, m \div 2)

RECURSIVE BitOr(_, _)
\* a | b, a >= 0, b >= 0
BitOr(a, b) ==
  IF a = 0 THEN b
  ELSE IF b = 0 THEN a
  ELSE (IF a % 2 = 1 \/ b % 2 = 1 THEN 1 ELSE 0)
       + 2 * BitOr(a \div 2, b \div 2)

\* a | b on words
WordOr(a, b) == <<BitOr(a[1], b[1]), BitOr(a[2], b[2])>>

\* x << n
Shl(x, n) == x * 2^n

\* A mask of nine bits in place of 0xFF.
Mask8Wide(x) == BitAnd(x, 511)

\* int(x) & 0xFF
Mask8(x) == BitAnd(x, 255)

\* 0x80000000 and 0x40000000
RgbTag == <<32768, 0>>
IndexedTag == <<16384, 0>>

\* 0x80000000 | ((int(r) & 0xFF) << 16) | ((int(g) & 0xFF) << 8)
\*            | (int(b) & 0xFF)
RgbFallback(r, g, b) ==
  WordOr(WordOr(WordOr(RgbTag, Word(Shl(Mask8(r), 16))),
                Word(Shl(Mask8(g), 8))),
         Word(Mask8(b)))

\* 0x40000000 | (int(i) & 0xFF)
IndexedFallback(i) == WordOr(IndexedTag, Word(Mask8(i)))

\* rgb(r, g, b): the native helper when the library has it, the fixed
\* encoding otherwise.
rgb(r, g, b) ==
  /\ \/ /\ "ratatui_color_rgb" \in colCaps
        /\ \E c \in OpaqueColors :
             colRgb' = [args |-> <<r, g, b>>, ret |-> c, native |-> TRUE]
     \/ /\ "ratatui_color_rgb" \notin colCaps
        /\ colRgb' = [args |-> <<r, g, b>>, ret |-> RgbFallback(r, g, b),
                      native |-> FALSE]
  /\ UNCHANGED <<colCaps, colIdx, wrapVars, nativeVars, drawVars, frameVars,
                 taskVars, appVars, scopeVars, loadVars, ffiVars,
                 layoutVars, castVars, readmeVars, hubVars, listVars>>

\* color_indexed(i), likewise.
color_indexed(i) ==
  /\ \/ /\ "ratatui_color_indexed" \in colCaps
        /\ \E c \in OpaqueColors :
             colIdx' = [args |-> <<i>>, ret |-> c, native |-> TRUE]
     \/ /\ "ratatui_color_indexed" \notin colCaps
        /\ colIdx' = [args |-> <<i>>, ret |-> IndexedFallback(i),
                      native |-> FALSE]
  /\ UNCHANGED <<colCaps, colRgb, wrapVars, nativeVars, drawVars, frameVars,
                 taskVars, appVars, scopeVars, loadVars, ffiVars,
                 layoutVars, castVars, readmeVars, hubVars, listVars>>

NextColor ==
  \/ \E r, g, b \in ColorArgs : rgb(r, g, b)
  \/ \E i \in ColorArgs : color_indexed(i)

\* Any build with or without each native color helper; nothing called yet.
InitColorSpec ==
  /\ kind = [o \in Objs |-> FixedKind(o)]
  /\ InitWrappers
  /\ loop = FALSE
  /\ InitTask
  /\ app = RenderOnly
  /\ InitApp
  /\ InitScope
  /\ world = BundledWorld
  /\ InitLoader
  /\ InitFfi
  /\ InitLayout
  /\ colCaps \in SUBSET ColorFns
  /\ colRgb = NoColor
  /\ colIdx = NoColor
  /\ InitCast
  /\ InitReadme
  /\ InitHub
  /\ InitList

SpecColor == InitColorSpec /\ [][NextColor]_vars

(***************************************************************************)
(* scripts/convert_cast_v3_to_v2.py: convert                               *)
(*                                                                         *)
(* A file is a sequence of lines, each a body and the terminator that      *)
(* ends it; only the last line may lack one.  The body of the first line   *)
(* is the JSON object it holds, a record of the fields convert looks at,   *)
(* Absent for a missing key; compact tells whether its text is the         *)
(* compact rendering json.dumps(..., separators=(',', ':')) gives.  The    *)
(* body of a later line is an opaque event.  Files are opened in text      *)
(* mode, on a platform whose os.linesep is "\n".                           *)
(***************************************************************************)
Absent == -1
LF == "\n"
CRLF == "\r\n"
NoEol == ""

Versions == {2, 3, 4, Absent}

Headers ==
  [version : Versions, width : {Absent}, height : {Absent},
   cols : {Absent, 0, 100}, rows : {Absent, 40},
   timestamp : {Absent, 5}, env : {Absent, 1}, compact : BOOLEAN]

\* The event lines after the header: at most MaxEvents of them, each
\* terminated, but for the last one which need not be.
EventLines ==
  UNION {{ev \in [1..n -> [body : 1..NumEvents, eol : {LF, CRLF, NoEol}]] :
            \A i \in 1..(n - 1) : ev[i].eol # NoEol} : n \in 0..MaxEvents}

\* The cast files given to convert: the empty file, and a header line
\* followed by event lines.
CastFiles ==
  {<<>>} \cup
  {<<[body |-> h, eol |-> e]>> \o ev :
     h \in Headers, e \in {LF, CRLF}, ev \in EventLines}

\* A line as readline() and iteration give it in text mode with the
\* default newline=None: its terminator translated to "\n".
ReadText(line) ==
  [body |-> line.body, eol |-> IF line.eol = NoEol THEN NoEol ELSE LF]

\* f_out.write(line) in text mode: "\n" is written as os.linesep.
WriteText(line) == line

\* term.get('cols') or 80, term.get('rows') or 24
OrDefault(v, d) == IF v = Absent \/ v = 0 THEN d ELSE v

\* out_hdr, written with json.dumps(out_hdr, separators=(',', ':')) + "\n"
OutHeader(hdr) ==
  [body |-> [version |-> 2,
             width |-> OrDefault(hdr.cols, 80),
             height |-> OrDefault(hdr.rows, 24),
             cols |-> Absent, rows |-> Absent,
             timestamp |-> hdr.timestamp, env |-> hdr.env,
             compact |-> TRUE],
   eol |-> LF]

\* for line in f_in: f_out.write(line)
CopyLines(lines) == [i \in 1..Len(lines) |-> WriteText(ReadText(lines[i]))]

\* convert(in_path, out_path): the output file and how the call ended.
convert(file) ==
  IF file = <<>>
  THEN [out |-> <<>>, err |-> "SystemExit: empty cast file"]
  ELSE LET first == ReadText(file[1])
           hdr == first.body
       IN IF hdr.version = 2
          THEN [out |-> <<WriteText(first)>> \o CopyLines(Tail(file)),
                err |-> "none"]
          ELSE IF hdr.version # 3
          THEN [out |-> <<>>, err |-> "SystemExit: unsupported cast version"]
          ELSE [out |-> <<OutHeader(hdr)>> \o CopyLines(Tail(file)),
                err |-> "none"]

Convert ==
  /\ castRan' = TRUE
  /\ castOut' = convert(castIn).out
  /\ castErr' = convert(castIn).err
  /\ UNCHANGED <<castIn, wrapVars, nativeVars, drawVars, frameVars, taskVars,
                 appVars, scopeVars, loadVars, ffiVars, layoutVars,
                 colorVars, readmeVars, hubVars, listVars>>

NextCast == Convert

\* Any cast file within the bounds; convert not called.
InitCastSpec ==
  /\ kind = [o \in Objs |-> FixedKind(o)]
  /\ InitWrappers
  /\ loop = FALSE
  /\ InitTask
  /\ app = RenderOnly
  /\ InitApp
  /\ InitScope
  /\ world = BundledWorld
  /\ InitLoader
  /\ InitFfi
  /\ InitLayout
  /\ InitColor
  /\ castIn \in CastFiles
  /\ castOut = <<>>
  /\ castErr = "none"
  /\ castRan = FALSE
  /\ InitReadme
  /\ InitHub
  /\ InitList

SpecCast == InitCastSpec /\ [][NextCast]_vars

(***************************************************************************)
(* scripts/generate_*.py: injection of the generated content into a README *)
(*                                                                         *)
(* The text of a file is a sequence of pieces: the two markers, lines of   *)
(* other text ending in "\n" or in "\r\n", the generated content and the   *)
(* newlines put around it.  The three scripts hold the same code.          *)
(***************************************************************************)
BEGIN == "<!-- BEGIN: SNAPSHOTS -->"
END == "<!-- END: SNAPSHOTS -->"
Content == "content"

Scripts ==
  {"generate_text_snapshots", "generate_image_snapshots",
   "generate_snapshot_grid"}

\* The READMEs the scripts are given: at most MaxPieces pieces.
Readmes ==
  UNION {[1..n -> {BEGIN, END, "text\n", "text\r\n"}] : n \in 0..MaxPieces}

\* x in txt
Contains(txt, x) == \E i \in 1..Len(txt) : txt[i] = x

\* The index of the first x in txt.
Find(txt, x) == CHOOSE i \in 1..Len(txt) : txt[i] = x /\ \A j \in 1..(i - 1) : txt[j] # x

\* txt.split(x, 1): the parts before and after the first x; one part, the
\* text itself, when x is not in it.
Split1(txt, x) ==
  IF Contains(txt, x)
  THEN <<SubSeq(txt, 1, Find(txt, x) - 1),
         SubSeq(txt, Find(txt, x) + 1, Len(txt))>>
  ELSE <<txt>>

\* readme_path.read_text(encoding='utf-8'): text mode, "\r\n" read as "\n".
read_text(file) ==
  [i \in 1..Len(file) |-> IF file[i] = "text\r\n" THEN "text\n" ELSE file[i]]

\* readme_path.write_text(new, encoding='utf-8'): "\n" written as os.linesep
write_text(txt) == txt

\* inject_into_readme(readme_path, content): the file afterwards and how the
\* call ended.
inject_into_readme(file) ==
  LET txt == read_text(file)
  IN IF Contains(txt, BEGIN) /\ Contains(txt, END)
     THEN LET before == Split1(txt, BEGIN)[1]
              rest == Split1(txt, BEGIN)[2]
          IN IF Len(Split1(rest, END)) # 2
             THEN [file |-> file, err |-> "ValueError"]
             ELSE [file |-> write_text(before \o <<BEGIN, "\n\n", Content, "\n", END>>
                                       \o Split1(rest, END)[2]),
                   err |-> "none"]
     ELSE [file |-> file, err |-> "none"]

\* A run of one of the scripts with a README argument.
Inject(script) ==
  /\ rdBy' = script
  /\ rdBefore' = rdFile
  /\ rdFile' = inject_into_readme(rdFile).file
  /\ rdErr' = inject_into_readme(rdFile).err
  /\ UNCHANGED <<wrapVars, nativeVars, drawVars, frameVars, taskVars,
                 appVars, scopeVars, loadVars, ffiVars, layoutVars,
                 colorVars, castVars, hubVars, listVars>>

NextReadme == \E script \in Scripts : Inject(script)

\* Any README within the bounds; nothing injected.
InitReadmeSpec ==
  /\ kind = [o \in Objs |-> FixedKind(o)]
  /\ InitWrappers
  /\ loop = FALSE
  /\ InitTask
  /\ app = RenderOnly
  /\ InitApp
  /\ InitScope
  /\ world = BundledWorld
  /\ InitLoader
  /\ InitFfi
  /\ InitLayout
  /\ InitColor
  /\ InitCast
  /\ rdFile \in Readmes
  /\ rdBefore = <<>>
  /\ rdBy = "none"
  /\ rdErr = "none"
  /\ InitHub
  /\ InitList

SpecReadme == InitReadmeSpec /\ [][NextReadme]_vars

(***************************************************************************)
(* demo_runner.py: run_demo_hub                                            *)
(*                                                                         *)
(* One action is one iteration of the hub's loop: tick, code pane and      *)
(* demo drawn, one event polled and dispatched.  A key event carries a     *)
(* key code and a character ("" for ch = 0).                               *)
(***************************************************************************)
\* The demos list, in order; idx counts from 0.
demos ==
  <<"HelloDemo", "WidgetsDemo", "LifeDemo", "DashboardDemo",
    "ChartPlaygroundDemo", "SpectrumAnalyzerDemo", "LogViewerDemo",
    "MarkdownViewerDemo", "FileManagerDemo", "ChatDemo", "PlasmaDemo",
    "MandelbrotDemo">>

Demo(i) == demos[i + 1]

KeyCode ==
  [Char |-> 0, Left |-> 2, Right |-> 3, Up |-> 4, Tab |-> 8, Delete |-> 9]

Key(code, ch) == [kind |-> "key", code |-> code, ch |-> ch]

\* The events next_event hands to the hub: keys, and one that is no key.
HubEvents ==
  {Key(c, "") : c \in {KeyCode.Left, KeyCode.Right, KeyCode.Up, KeyCode.Tab,
                        KeyCode.Delete}}
  \cup {Key(KeyCode.Char, c) : c \in {"q", "Q", "w", "s", "+", "j"}}
  \cup {[kind |-> "resize", code |-> 0, ch |-> ""]}

\* chr(ch).lower()
Lower(c) == IF c = "Q" THEN "q" ELSE c

\* The demos that have a render of their own; the others inherit
\* DemoBase.render, which draws nothing.
OwnRender == {"HelloDemo", "WidgetsDemo", "LifeDemo", "DashboardDemo"}

\* The demos whose render_cmds returns [] for a rect without room.
MayHaveNoCmds == {"PlasmaDemo", "MandelbrotDemo"}

\* What demo.render(term, demo_rect) draws.
DemoRender(d) == IF d \in OwnRender THEN <<"demo.render">> ELSE <<>>

\* The demo's on_key does something on the key event e.
Reacts(d, e) ==
  LET c == Lower(e.ch)
  IN CASE d = "LifeDemo" -> c \in {"p", "+", "-", "r"}
       [] d = "DashboardDemo" -> c \in {"a", "d", "j", "k", "r"}
       [] d = "ChartPlaygroundDemo" -> c \in {"+", "-", "f", "s"}
       [] d = "LogViewerDemo" -> e.ch # ""
       [] d = "MarkdownViewerDemo" -> c \in {"j", "k"}
       [] d = "FileManagerDemo" ->
            e.code \in {KeyCode.Left, KeyCode.Right} \/ c \in {"j", "k"}
       [] d = "ChatDemo" -> e.ch # ""
       [] d = "PlasmaDemo" -> c \in {"p", "+", "-"}
       [] d = "MandelbrotDemo" ->
            \/ c \in {"+", "-", "i", "k", "c"}
            \/ e.code \in {KeyCode.Left, KeyCode.Right, KeyCode.Up, 5}
       [] OTHER -> FALSE

\* The drawing of one iteration: one batched frame of the code pane and the
\* demo's commands, the demo's own render when that frame fails; with no
\* commands, the code pane and then the demo's own render.
HubDraw(d, noCmds, ok) ==
  IF ~noCmds
  THEN <<"draw_frame">> \o (IF ok THEN <<>> ELSE DemoRender(d))
  ELSE <<"draw_paragraph(pcode)">> \o DemoRender(d)

\* One iteration of the loop.
HubIteration(noCmds, ok, e) ==
  /\ hubRun = "running"
  /\ noCmds => Demo(idx) \in MayHaveNoCmds
  /\ noCmds => ok
  /\ hubDemo' = idx
  /\ hubScroll' = code_scroll
  /\ hubFrame' = IF noCmds THEN "none" ELSE IF ok THEN "ok" ELSE "failed"
  /\ hubCalls' = HubDraw(Demo(idx), noCmds, ok)
  /\ hubEvt' = e
  /\ IF e.kind # "key"
     THEN UNCHANGED <<idx, code_scroll, hubRun>> /\ hubKeyTo' = {}
     ELSE IF e.code \in {2}
     THEN /\ idx' = (idx - 1) % Len(demos)
          /\ code_scroll' = 0
          /\ hubKeyTo' = {}
          /\ UNCHANGED hubRun
     ELSE IF e.code \in {3, 9}
     THEN /\ idx' = (idx + 1) % Len(demos)
          /\ code_scroll' = 0
          /\ hubKeyTo' = {}
          /\ UNCHANGED hubRun
     ELSE IF e.ch # "" /\ Lower(e.ch) = "q"
     THEN /\ hubRun' = "exited"
          /\ hubKeyTo' = {}
          /\ UNCHANGED <<idx, code_scroll>>
     ELSE IF e.ch # "" /\ Lower(e.ch) = "w"
     THEN /\ code_scroll' = Max(0, code_scroll - 1)
          /\ hubKeyTo' = {}
          /\ UNCHANGED <<idx, hubRun>>
     ELSE IF e.ch # "" /\ Lower(e.ch) = "s"
     THEN /\ code_scroll < MaxScroll
          /\ code_scroll' = code_scroll + 1
          /\ hubKeyTo' = {}
          /\ UNCHANGED <<idx, hubRun>>
     ELSE /\ hubKeyTo' = {idx}
          /\ UNCHANGED <<idx, code_scroll, hubRun>>
  /\ UNCHANGED <<wrapVars, nativeVars, drawVars, frameVars, taskVars,
                 appVars, scopeVars, loadVars, ffiVars, layoutVars,
                 colorVars, castVars, readmeVars, listVars>>

NextHub ==
  \E noCmds, ok \in BOOLEAN, e \in HubEvents \cup {NoEvent} :
    HubIteration(noCmds, ok, e)

InitHubSpec ==
  /\ kind = [o \in Objs |-> FixedKind(o)]
  /\ InitWrappers
  /\ loop = FALSE
  /\ InitTask
  /\ app = RenderOnly
  /\ InitApp
  /\ InitScope
  /\ world = BundledWorld
  /\ InitLoader
  /\ InitFfi
  /\ InitLayout
  /\ InitColor
  /\ InitCast
  /\ InitReadme
  /\ InitHub
  /\ InitList

SpecHub == InitHubSpec /\ [][NextHub]_vars

(***************************************************************************)
(* wrappers.py: List.append_items_spans                                    *)
(*                                                                         *)
(* A text is a sequence of characters, so that joining texts is \o.        *)
(***************************************************************************)
SpanTexts == {<<"a">>, <<"b">>}
SpanStyles == {"plain", "bold"}
Spans == [text : SpanTexts, style : SpanStyles]

\* The sequences over S of at most n elements.
SeqUpTo(S, n) == UNION {[1..k -> S] : k \in 0..n}

\* The items given: at most MaxItems entries of at most MaxSpans spans.
ItemLists == SeqUpTo(SeqUpTo(Spans, MaxSpans), MaxItems)

RECURSIVE AppendEach(_)
\* for text, style in spans: self.append_item(text, style)
AppendEach(spans) ==
  IF spans = <<>> THEN <<>>
  ELSE <<[text |-> spans[1].text, style |-> spans[1].style]>>
       \o AppendEach(Tail(spans))

RECURSIVE FallbackItems(_)
\* for spans in items: ...
FallbackItems(items) ==
  IF items = <<>> THEN <<>>
  ELSE AppendEach(items[1]) \o FallbackItems(Tail(items))

\* lst.append_items_spans(lstArg)
AppendItemsSpans ==
  /\ ~lstDone
  /\ lstDone' = TRUE
  /\ IF ~lstBatch
     THEN /\ lstItems' = lstItems \o FallbackItems(lstArg)
          /\ UNCHANGED lstNative
     ELSE /\ lstNative' = Len(lstArg)
          /\ UNCHANGED lstItems
  /\ UNCHANGED <<lstBatch, lstArg, wrapVars, nativeVars, drawVars, frameVars,
                 taskVars, appVars, scopeVars, loadVars, ffiVars, layoutVars,
                 colorVars, castVars, readmeVars, hubVars>>

NextList == AppendItemsSpans

\* A new List on a build with or without the batching call, and any items
\* within the bounds.
InitListSpec ==
  /\ kind = [o \in Objs |-> FixedKind(o)]
  /\ InitWrappers
  /\ loop = FALSE
  /\ InitTask
  /\ app = RenderOnly
  /\ InitApp
  /\ InitScope
  /\ world = BundledWorld
  /\ InitLoader
  /\ InitFfi
  /\ InitLayout
  /\ InitColor
  /\ InitCast
  /\ InitReadme
  /\ InitHub
  /\ lstBatch \in BOOLEAN
  /\ lstArg \in ItemLists
  /\ lstItems = <<>>
  /\ lstNative = -1
  /\ lstDone = FALSE

SpecList == InitListSpec /\ [][NextList]_vars

(***************************************************************************)
(* Claims about wrappers, DrawCmd, draw_frame and Frame                    *)
(***************************************************************************)
\* Every DrawCmd that exists: in the program's list, in the Frame, or in a
\* draw_frame call in progress.
LiveCmds ==
  {cmds[i] : i \in DOMAIN cmds} \cup {fCmds[i] : i \in DOMAIN fCmds}
    \cup {dfArgs[i] : i \in DOMAIN dfArgs}

\* C1: for every wrapper type and every sequence of close() calls and
\* finalizer runs on one wrapper, the matching native free function is
\* called exactly once on its handle: the first close() calls it and marks
\* the handle absent, later close() calls and the finalizer call nothing.
C1_FreeExactlyOnce ==
  \A o \in Objs :
    /\ Len(freeCalls[o]) <= 1
    /\ handle[o] \in {NULL, Ptr(o)}
    /\ handle[o] # NULL => freeCalls[o] = <<>> /\ Ptr(o) \notin freed
    /\ handle[o] = NULL =>
         freeCalls[o] = <<FreeFn(kind[o])>> /\ Ptr(o) \in freed
    /\ finalized[o] => handle[o] = NULL

\* A wrapper of a state type closed explicitly and finalized afterwards.
C1_Witness ==
  \E w \in Widgets :
    /\ kind[w] = "TableState"
    /\ freedBy[w] = "close"
    /\ finalized[w]
    /\ freeCalls[w] = <<"ratatui_table_state_free">>

\* C2: after close() has run on a wrapper, the freed handle value is never
\* passed to any native call, whatever the program does afterwards.
C2_NoFreedHandlePassed == ~staleCall

\* C3: the handle a DrawCmd built by a helper refers to is not freed by the
\* finalizer of its wrapper while the DrawCmd exists, up to the return of
\* the draw_frame call that submits it, even when the program has dropped
\* every other reference to the wrapper.
C3_OwnerKeepsHandleAlive ==
  \A c \in LiveCmds : \A w \in Widgets :
    c.handle = Ptr(w) => ~finalized[w] /\ freedBy[w] # "finalizer"

\* A draw_frame call has returned from the native engine with two
\* DrawCmds of distinct wrappers that the program no longer refers to.
C3_Witness ==
  /\ dfPc = "returned"
  /\ Len(dfArgs) = 2
  /\ dfArgs[1].owner # dfArgs[2].owner
  /\ \A i \in DOMAIN dfArgs :
       /\ ~userRef[dfArgs[i].owner]
       /\ dfArgs[i].handle # NULL
       /\ dfArgs[i].handle \notin freed
  /\ cmds = <<>>

\* C4: draw_frame(cmds) issues exactly one native batched-draw call, whose
\* array holds the kind, handle and rect of the i-th DrawCmd at index i,
\* and returns the flag of that call.
C4_OneBatchInOrder ==
  /\ dfPc \in {"idle", "marshalled"} => batchCalls = 0
  /\ dfPc = "returned" =>
       /\ batchCalls = 1
       /\ Len(batch) = Len(dfArgs)
       /\ \A i \in DOMAIN dfArgs :
            /\ batch[i].kind = dfArgs[i].kind
            /\ batch[i].handle = dfArgs[i].handle
            /\ batch[i].rect = dfArgs[i].rect
       /\ dfRet = nativeOk

\* A batch of two different DrawCmds has been drawn successfully.
C4_Witness ==
  /\ dfPc = "returned"
  /\ Len(dfArgs) = 2
  /\ dfArgs[1].kind # dfArgs[2].kind
  /\ dfArgs[1].rect # dfArgs[2].rect
  /\ nativeOk

\* C5: a Frame used as a scoped block calls draw_frame exactly once on
\* normal exit, with the DrawCmds appended inside the block in append
\* order, and stores the returned flag in ok; when the block exits through
\* an exception no draw call is made and ok stays unset.
C5_FrameDrawsOnceOnExit ==
  /\ fpc \in {"entered", "raised"} => fDraws = 0 /\ fOk = "None"
  /\ fpc = "exiting" =>
       /\ fDraws = 1
       /\ fOk = "None"
       /\ dfCaller = "frame"
       /\ dfArgs = fAppended
  /\ fpc = "exited" =>
       /\ fDraws = 1
       /\ fOk # "None"
       /\ dfCaller = "frame" => fOk = BoolStr(nativeOk)

\* A Frame block has exited normally after two different appends and the
\* batch succeeded.
C5_Witness ==
  /\ fpc = "exited"
  /\ Len(fAppended) = 2
  /\ fAppended[1] # fAppended[2]
  /\ fOk = "True"

(***************************************************************************)
(* Claims about BackgroundTask                                             *)
(***************************************************************************)
\* A worker has returned from the unit of work and not yet recorded it.
StorePending == \E t \in Threads : wpc[t] \in {"lock", "store"}

\* C6: a BackgroundTask never has more than one live worker thread:
\* start() while a worker is alive spawns nothing, however the start()
\* calls of the owning thread interleave with the worker's progress.
C6_AtMostOneWorker ==
  /\ Cardinality({t \in Threads : Alive(t)}) <= 1
  /\ \A t \in Threads : Alive(t) => t = spawned
  /\ opc = "idle" /\ spawned > 0 => thread = spawned

\* A second worker was spawned after the first had finished, and a start()
\* made while it runs the unit of work did nothing.
C6_Witness ==
  /\ spawned = 2
  /\ lastStart = "noop"
  /\ wpc[1] = "done"
  /\ wpc[2] = "running"

\* C7, as stated: in loop mode, once stop() has been called the worker
\* starts no run of the unit of work (a run in flight aside, which is
\* already started).
C7_NoRunStartsAfterStop ==
  [][loop /\ stopFlag =>
       \A t \in Threads : ~(wpc[t] = "call" /\ wpc'[t] = "running")]_vars

\* C7, amended: in loop mode, once stop() has been called no stop check of
\* the loop passes any more, so the worker starts at most the one run whose
\* check it had passed before stop(); a run in flight ends only by
\* returning or raising, never by stop(); and the worker thread eventually
\* terminates.
C7_StopEndsLoop ==
  /\ [][loop /\ stopFlag =>
          \A t \in Threads : ~(wpc[t] = "check" /\ wpc'[t] = "call")]_vars
  /\ [][\A t \in Threads :
          wpc[t] = "running" => wpc'[t] \in {"running", "lock", "raised"}]_vars
  /\ [][stopFlag' # stopFlag => wpc' = wpc /\ stopFlag']_vars
  /\ (loop /\ stopFlag ~> \A t \in Threads : ~Alive(t))

\* stop() was called during a run in loop mode; that run was recorded and
\* the worker has terminated.
C7_Witness ==
  /\ loop
  /\ stopFlag
  /\ stopAt = "running"
  /\ spawned = 1
  /\ wpc[1] = "done"
  /\ exc[1] = None
  /\ result # None
  /\ result = res[1]

\* C8, as stated: once a failure has been captured, error() returns that
\* failure ever after.
C8_ErrorNeverReplaced == [][error # None => error' = error]_vars

\* C8, amended: a failure raised by the unit of work is captured: the worker
\* that raised runs no further iteration, error() returns the failure of the
\* latest failing run (it changes only when a worker captures its failure),
\* and peek() still returns the result of the last run that returned.
C8_FailureCaptured ==
  /\ [](\A t \in Threads :
          /\ exc[t] # None => wpc[t] \in {"raised", "done"}
          /\ wpc[t] = "raised" => exc[t] = lastRaised)
  /\ []((\A t \in Threads : wpc[t] # "raised") => error = lastRaised)
  /\ [](~StorePending => result = hist[2])
  /\ [][error' # error =>
          \E t \in Threads :
            wpc[t] = "raised" /\ wpc'[t] = "done" /\ error' = exc[t]]_vars
  /\ [][\A t \in Threads : wpc[t] = "raised" => result' = result]_vars

\* A loop worker recorded a result, then a later run failed: the failure is
\* what error() returns, the result what peek() returns.
C8_Witness ==
  /\ loop
  /\ spawned = 1
  /\ wpc[1] = "done"
  /\ exc[1] # None
  /\ error = exc[1]
  /\ result # None
  /\ ~stopFlag

\* C9: peek() never waits for a run of the unit of work (the lock is held
\* by the worker only while it assigns the result), and returns the value
\* of the latest successful run that has been recorded: None before any.
C9_PeekLatestWithoutWaiting ==
  /\ [](/\ lock = "worker" => \E t \in Threads : wpc[t] = "store"
        /\ lock = "owner" <=> opc = "peek"
        /\ (\A t \in Threads : wpc[t] # "store") /\ opc # "peek" =>
             lock = "free")
  /\ [][opc = "peek" /\ opc' = "idle" =>
          peeked' = IF StorePending THEN hist[1] ELSE hist[2]]_vars

\* peek() has returned the recorded result while the next run of the loop
\* is in flight.
C9_Witness ==
  /\ loop
  /\ opc = "idle"
  /\ peeked # None
  /\ peeked = result
  /\ \E t \in Threads : wpc[t] = "running"
  /\ hist[1] # None
  /\ hist[1] # hist[2]

(***************************************************************************)
(* Claims about App.run                                                    *)
(***************************************************************************)
\* on_tick calls of the current iteration.
TickCalls == Cardinality({i \in DOMAIN calls : calls[i] = "on_tick"})

\* The wait of the current iteration is within max(0, tick_ms - elapsed_ms),
\* elapsed_ms being the whole milliseconds since the last tick when render
\* returned; on_tick is called at most once in an iteration.
WaitWithinBudget ==
  /\ apc = "wait" => elapsed_ms = sinceTick \div UnitsPerMs
  /\ apc = "dispatch" =>
       /\ waited <= Max(0, app.tick_ms - elapsed_ms) * UnitsPerMs
       /\ (sinceTick - waited) \div UnitsPerMs = elapsed_ms
  /\ TickCalls <= 1

\* After an iteration that made the tick test, the tick clock has been
\* reset exactly if the tick was due: it then counts from now2.
ClockResetWhenDue ==
  iterEnd = "completed" /\ apc = "loop" =>
    sinceTick = IF now2El >= app.tick_ms * UnitsPerMs THEN tickDur ELSE now2El

\* C10, as stated: every iteration of App.run waits for input for at most
\* max(0, tick_ms - elapsed), and on_tick is invoked in an iteration exactly
\* when at least tick_ms have elapsed since the last tick, whether or not an
\* event arrived, at most once, after which the tick clock is reset.  Here
\* for every iteration that ended without a failure, the one ended by
\* on_event returning False included.
C10_TickInEveryDueIteration ==
  /\ WaitWithinBudget
  /\ ClockResetWhenDue
  /\ iterEnd = "completed" /\ app.on_tick =>
       (TickCalls = 1 <=> now2El >= app.tick_ms * UnitsPerMs)
  /\ iterEnd = "break" /\ app.on_tick =>
       (TickCalls = 1 <=> sinceTick >= app.tick_ms * UnitsPerMs)

\* C10, amended: every iteration waits for input for at most
\* max(0, tick_ms - elapsed_ms); an iteration that on_event does not end
\* invokes on_tick exactly when at least tick_ms have elapsed since the last
\* tick at its tick test, whether or not an event arrived, at most once,
\* and then resets the tick clock; an iteration that on_event ends by
\* returning False invokes no on_tick, however long ago the last tick was.
C10_TickWhenDueAtTickTest ==
  /\ WaitWithinBudget
  /\ ClockResetWhenDue
  /\ iterEnd = "completed" /\ app.on_tick =>
       (TickCalls = 1 <=> now2El >= app.tick_ms * UnitsPerMs)
  /\ iterEnd = "break" => TickCalls = 0

\* An iteration with an elapsed time before the wait, a wait that an event
\* ended, and a tick.
C10_Witness ==
  /\ iterEnd = "completed"
  /\ apc = "loop"
  /\ TickCalls = 1
  /\ evt = "key"
  /\ app.on_event
  /\ elapsed_ms > 0
  /\ waited > 0

\* run() is over: it has returned, or a failure has left it.
RunOver == apc \in {"returned", "raised"}

\* The callee whose failure left the loop body: the last call before on_stop.
RaisedIn ==
  IF calls # <<>> /\ calls[Len(calls)] = "on_stop"
  THEN calls[Len(calls) - 1]
  ELSE calls[Len(calls)]

\* C11: a run of App.run that reached the loop invokes on_stop (when one was
\* given) exactly once: with the failure, before it is re-raised, when a
\* failure leaves render, the event wait, on_event or on_tick, and with no
\* failure when the loop ends normally; a run that did not reach the loop
\* invokes no on_stop.
C11_OnStopExactlyOnce ==
  /\ Len(stopArgs) <= 1
  /\ ~app.on_stop \/ iterEnd = "none" => stopArgs = <<>>
  /\ apc \in {"new", "entered", "loop", "wait", "dispatch", "tick", "except",
              "else"} => stopArgs = <<>>
  /\ app.on_stop /\ iterEnd # "none" /\ apc \in {"with_exit", "returned", "raised"} =>
       /\ Len(stopArgs) = 1
       /\ iterEnd = "break" => stopArgs[1] = "None"
       /\ iterEnd = "raised" =>
            /\ stopArgs[1] = RaisedIn
            /\ stopArgs[1] \in {"render", "next_event", "on_event", "on_tick"}
            /\ failure \in {stopArgs[1], "on_stop"}
  /\ iterEnd = "raised" /\ RunOver => apc = "raised"

\* A failure of on_tick was handed to on_stop and then left run().
C11_Witness ==
  /\ apc = "raised"
  /\ iterEnd = "raised"
  /\ stopArgs = <<"on_tick">>
  /\ failure = "on_tick"

\* After on_event returned False nothing but on_stop is called, and the tick
\* clock is as on_event left it.
NothingAfterStopSignal ==
  iterEnd = "break" =>
    /\ apc \in {"else", "with_exit", "returned", "raised"}
    /\ \E i \in DOMAIN calls :
         /\ calls[i] = "on_event"
         /\ \A j \in DOMAIN calls : j > i => calls[j] = "on_stop"
    /\ TickCalls = 0
    /\ evt # "None"

\* C12, as stated: when on_event returns False for a received event, no
\* further render, event wait or on_tick happens after that call, and run
\* returns normally.
C12_StopSignalReturnsNormally ==
  /\ NothingAfterStopSignal
  /\ iterEnd = "break" /\ RunOver => apc = "returned"

\* C12, amended: when on_event returns False for a received event, no
\* further render, event wait or on_tick happens after that call; on_stop,
\* if given, is called with no failure, and run returns normally unless
\* that on_stop call raises, in which case its failure leaves run.
C12_StopSignalEndsLoop ==
  /\ NothingAfterStopSignal
  /\ iterEnd = "break" /\ RunOver =>
       /\ apc = "returned" <=> failure = "None"
       /\ apc = "raised" => app.on_stop /\ failure = "on_stop"
       /\ app.on_stop => stopArgs = <<"None">>

\* on_event stopped the loop while a tick was due, and run returned.
C12_Witness ==
  /\ iterEnd = "break"
  /\ apc = "returned"
  /\ app.on_tick
  /\ app.tick_ms > 0
  /\ sinceTick >= app.tick_ms * UnitsPerMs

(***************************************************************************)
(* Claims about scoped blocks                                              *)
(***************************************************************************)
\* How often native call fn occurs in the scoped helpers' log.
Issued(fn) == Cardinality({i \in DOMAIN scLog : scLog[i] = fn})

\* The block of context manager mgr has been entered and left.
Left(mgr) == mgr \in scEntered /\ ~InScope(mgr)

\* C13: App.run, and every with block on a Terminal, releases the native
\* terminal exactly once on every exit path - normal stop, or a failure
\* raised by on_start, render, the event wait, on_event, on_tick or on_stop
\* (App.run), the block's end or a failure raised in it (with block) - and
\* not before.
C13_TerminalReleasedOnce ==
  /\ appFrees <= 1
  /\ apc \in {"entered", "loop", "wait", "dispatch", "tick", "except", "else",
              "with_exit"} => appFrees = 0 /\ appHandle # NULL
  /\ RunOver /\ failure # "RuntimeError" => appFrees = 1 /\ appHandle = NULL
  /\ RunOver /\ failure = "RuntimeError" => appFrees = 0
  /\ Len(freeCalls[TermObj]) <= 1
  /\ Left("Terminal") =>
       /\ freeCalls[TermObj] = <<"ratatui_terminal_free">>
       /\ handle[TermObj] = NULL

\* on_stop was called after a failure of render and failed itself: run()
\* has raised and the terminal has been released.
C13_Witness ==
  /\ apc = "raised"
  /\ failure = "on_stop"
  /\ stopArgs = <<"render">>
  /\ appFrees = 1

\* C14: raw_mode() and alt_screen() issue the native enable / enter call on
\* entry and the matching disable / leave call exactly once on exit, after
\* it, whether the block ended or a failure raised inside it left it.
C14_ModeRestoredOnce ==
  \A mgr \in {"raw_mode", "alt_screen"} :
    /\ Issued(EnterCall(mgr)) = IF mgr \in scEntered THEN 1 ELSE 0
    /\ Issued(ExitCall(mgr)) = IF Left(mgr) THEN 1 ELSE 0
    /\ \A i, j \in DOMAIN scLog :
         scLog[i] = EnterCall(mgr) /\ scLog[j] = ExitCall(mgr) => i < j

\* A failure raised inside nested raw_mode, alt_screen and Terminal blocks
\* has left all of them.
C14_Witness ==
  /\ scExc
  /\ scStack = <<>>
  /\ scEntered = Managers
  /\ Issued("ratatui_terminal_disable_raw") = 1
  /\ Issued("ratatui_terminal_leave_alt") = 1

(***************************************************************************)
(* Claims about load_library                                               *)
(***************************************************************************)
\* C15: once load_library has succeeded, every later call, whatever its
\* explicit path and whatever RATATUI_FFI_LIB holds, returns the cached
\* handle and attempts no discovery and no load.
C15_CachedHandleReturned ==
  /\ ldCachedBefore # NoLib =>
       /\ ldRet = ldCachedBefore
       /\ ldErr = NoLib
       /\ ldTried = <<>>
       /\ cached = ldCachedBefore
  /\ ldCachedBefore = NoLib /\ ldCalls > 0 => cached = ldRet

\* After the bundled copy was loaded, a call naming a path that exists and
\* would load returned the bundled copy.
C15_Witness ==
  /\ ldCalls = 2
  /\ ldCachedBefore = Attempt("bundled", 0)
  /\ ldPath \in world.exists \cap world.loads
  /\ ldRet = Attempt("bundled", 0)

\* The smallest default name that loads.
FirstDefault == CHOOSE k \in world.defaults : \A j \in world.defaults : k <= j

\* C16: load_library tries (1) the path given or RATATUI_FFI_LIB, if it
\* names an existing file, (2) the bundled copy, (3) the linker's search,
\* (4) the default names; the handle returned comes from the first stage
\* whose load succeeds, and the call fails, with the last load error, only
\* if all four stages fail.
C16_FirstSuccessfulStageWins ==
  ldCalls > 0 /\ ldCachedBefore = NoLib =>
    /\ ldRet =
         IF ldPath # NoPath /\ ldPath \in world.exists \cap world.loads
         THEN Attempt("path", ldPath)
         ELSE IF world.bundled = "ok" THEN Attempt("bundled", 0)
         ELSE IF world.system = "ok" THEN Attempt("system", 0)
         ELSE IF world.defaults # {} THEN Attempt("default", FirstDefault)
         ELSE NoLib
    /\ ldRet = NoLib => ldErr = ldTried[Len(ldTried)]

(***************************************************************************)
(* Claims about constructors, optional operations and headless helpers     *)
(***************************************************************************)
\* C17: a wrapper constructor that fails - the native new returned null, or
\* the native new of a gated type (Scrollbar, ListState, TableState) is
\* absent, and then it is not called - raises at once, hands out no
\* wrapper, and no native free is ever called for it, its finalizer
\* included.
C17_FailedConstructorNeverFrees ==
  \A o \in Built :
    /\ ctor[o] \in {"null", "unsupported"} =>
         /\ freeCalls[o] = <<>>
         /\ Ptr(o) \notin freed
         /\ handle[o] = NULL
         /\ ~userRef[o]
    /\ ctor[o] = "unsupported" => newCalls[o] = 0
    /\ ctor[o] = "null" => newCalls[o] = 1
    /\ kind[o] \in GatedKinds /\ NewFn(kind[o]) \notin caps =>
         ctor[o] \in {"none", "unsupported"}

\* The finalizers of a Terminal whose native init returned null and of a
\* gated wrapper whose native new is absent have run.
C17_Witness ==
  /\ ctor[TermObj] = "null"
  /\ finalized[TermObj]
  /\ ctor[1] = "unsupported"
  /\ finalized[1]

\* C18: an optional operation whose native entry point is absent makes no
\* native call: the optional setters of Paragraph, List and Table and the
\* Terminal mode toggles return normally, draw_clear returns False, the
\* cursor and viewport get and set operations raise.
C18_AbsentEntryPointNoCall ==
  call.op \notin {"none", "headless_render"} /\ call.fn \notin caps =>
    /\ ~call.made
    /\ call.outcome =
         CASE call.op = "draw_clear" -> "False"
           [] call.op \in {"get_cursor_position", "set_cursor_position",
                           "get_viewport_area", "set_viewport_area"} ->
                "RuntimeError: not supported"
           [] OTHER -> "returned"

\* set_viewport_area was called on a build without its entry point.
C18_Witness ==
  /\ call.op = "set_viewport_area"
  /\ call.fn \notin caps
  /\ ~call.made

\* C19: in every headless_render_<kind> call, a buffer the native engine
\* handed back is released by exactly one ratatui_string_free call before
\* the helper returns, whether or not the native call reported success.
C19_BufferFreedOnce ==
  call.op = "headless_render" /\ call.out => call.frees = 1

(***************************************************************************)
(* Claims about layout                                                     *)
(***************************************************************************)
\* The segments of out along one axis (offset at index a, size at index b)
\* are one per fraction, at strictly increasing offsets, each starting one
\* gap after the end of the one before, and their sizes and the gaps
\* between them add up to length.
TilesAxis(out, a, b, length) ==
  /\ Len(out) = Len(lyFr)
  /\ \A i \in 1..(Len(out) - 1) :
       /\ out[i + 1][a] > out[i][a]
       /\ out[i + 1][a] = out[i][a] + out[i][b] + lyGap
  /\ SumSeq([i \in 1..Len(out) |-> out[i][b]]) + (Len(out) - 1) * lyGap = length

\* C20: for any rect, any non-empty list of non-negative fractions and any
\* gap >= 0, split_v returns one column per fraction, in order, at strictly
\* increasing x-offsets without overlap, each starting one gap after the
\* right edge of the one before, the widths and the count-1 gaps adding up
\* to exactly rect.width; split_h does the same with rows and rect.height.
\* Stated here for the inputs that leave room for such a result: a gap of
\* at least 1, and gaps that fit into the side that is split.
C20_SegmentsTileRect ==
  /\ lyFn = "split_v" /\ lyGap >= 1 /\ (Len(lyFr) - 1) * lyGap <= lyRect[3] =>
       TilesAxis(lyOut, 1, 3, lyRect[3])
  /\ lyFn = "split_h" /\ lyGap >= 1 /\ (Len(lyFr) - 1) * lyGap <= lyRect[4] =>
       TilesAxis(lyOut, 2, 4, lyRect[4])

\* Every segment of out has a width and a height of at least 0.
NoNegativeSide(out) ==
  \A i \in 1..Len(out) : out[i][3] >= 0 /\ out[i][4] >= 0

\* The count-1 gaps alone exceed the side of the given length.
GapsExceed(length) == (Len(lyFr) - 1) * lyGap > length

\* C21: split_h and split_v never raise and never return a segment of
\* negative width or height, for any rect, any fractions (all-zero ones
\* included, whose sum is then taken as 1.0) and any gap, a rect smaller
\* than the total gap included; such inputs give zero-sized segments: when
\* the gaps exceed the side every segment has size 0 along it, and with
\* all-zero fractions every segment but the last has.
C21_NeverRaisesNeverNegative ==
  lyFn # "none" =>
    /\ lyErr = "none"
    /\ Len(lyOut) = Len(lyFr)
    /\ NoNegativeSide(lyOut)
    /\ lyFn = "split_v" /\ GapsExceed(lyRect[3]) =>
         \A i \in 1..Len(lyOut) : lyOut[i][3] = 0
    /\ lyFn = "split_h" /\ GapsExceed(lyRect[4]) =>
         \A i \in 1..Len(lyOut) : lyOut[i][4] = 0
    /\ SumSeq(lyFr) = 0 =>
         \A i \in 1..(Len(lyOut) - 1) :
           lyOut[i][IF lyFn = "split_v" THEN 3 ELSE 4] = 0

\* split_v was applied to all-zero fractions on a rect narrower than its
\* gaps, and returned.
C21_Witness ==
  /\ lyFn = "split_v"
  /\ Len(lyFr) = 3
  /\ SumSeq(lyFr) = 0
  /\ GapsExceed(lyRect[3])
  /\ Len(lyOut) = 3

\* C29: a BackgroundTask's stop request is permanent: once stop() has been
\* called, stopped() is true in every later state, and a worker started
\* afterwards in loop mode performs zero runs of the unit of work before
\* it terminates.
C29_StopIsPermanent ==
  /\ [](stopFlag => []stopFlag)
  /\ \A t \in Threads :
       [](loop /\ stopFlag /\ wpc[t] = "unborn" =>
            [](wpc[t] \in {"unborn", "check", "done"}))

\* A loop-mode worker was started after stop() and has terminated: the
\* first stop() found no live worker, and the only worker ever started has
\* ended without the unit of work having returned or raised.
C29_Witness ==
  /\ loop
  /\ stopFlag
  /\ stopAt = "noworker"
  /\ spawned = 1
  /\ wpc[1] = "done"
  /\ hist = <<None, None>>
  /\ lastRaised = None

(***************************************************************************)
(* Claims about the color helpers                                          *)
(***************************************************************************)
\* The palette codes 0..16 as words.
PaletteCodes == {Word(c) : c \in 0..16}

\* C22: with the native color helpers absent, rgb(r, g, b) is
\* 0x80000000 | ((r & 0xFF) << 16) | ((g & 0xFF) << 8) | (b & 0xFF) and
\* color_indexed(i) is 0x40000000 | (i & 0xFF) for every integer input,
\* inputs out of range being masked; so no result is a palette code 0..16
\* and no rgb result equals an indexed result.
C22_FallbackEncoding ==
  /\ colRgb # NoColor /\ ~colRgb.native =>
       /\ colRgb.ret = <<32768 + (colRgb.args[1] % 256),
                         (colRgb.args[2] % 256) * 256 + (colRgb.args[3] % 256)>>
       /\ colRgb.ret \notin PaletteCodes
  /\ colIdx # NoColor /\ ~colIdx.native =>
       /\ colIdx.ret = <<16384, colIdx.args[1] % 256>>
       /\ colIdx.ret \notin PaletteCodes
  /\ colRgb # NoColor /\ ~colRgb.native /\ colIdx # NoColor /\ ~colIdx.native =>
       colRgb.ret # colIdx.ret

\* Both fallbacks were used on arguments outside 0..255.
C22_Witness ==
  /\ colRgb # NoColor /\ ~colRgb.native
  /\ colRgb.args = <<256, -1, 261>>
  /\ colIdx # NoColor /\ ~colIdx.native
  /\ colIdx.args = <<261>>

(***************************************************************************)
(* Claims about the scripts                                                *)
(***************************************************************************)
\* C23: convert writes, for a version-2 input, an output identical to the
\* input; for a version-3 input, one compact version-2 header line
\* {version:2, width, height[, timestamp][, env]} with width / height from
\* the header's term.cols / term.rows (80 x 24 when absent), followed by
\* every remaining input line unchanged and in order; for any other
\* version value it fails fatally.
C23_ConvertOutput ==
  castRan /\ castIn # <<>> =>
    LET hdr == castIn[1].body
    IN /\ hdr.version = 2 => castErr = "none" /\ castOut = castIn
       /\ hdr.version = 3 =>
            /\ castErr = "none"
            /\ castOut # <<>>
            /\ castOut[1].eol = LF
            /\ castOut[1].body =
                 [version |-> 2,
                  width |-> IF hdr.cols = Absent THEN 80 ELSE hdr.cols,
                  height |-> IF hdr.rows = Absent THEN 24 ELSE hdr.rows,
                  cols |-> Absent, rows |-> Absent,
                  timestamp |-> hdr.timestamp, env |-> hdr.env,
                  compact |-> TRUE]
            /\ Tail(castOut) = Tail(castIn)
       /\ hdr.version \notin {2, 3} => castErr # "none"

\* C24: README injection replaces exactly the text between the BEGIN and
\* END markers with the generated content whenever both markers are in the
\* file, leaving everything before the BEGIN marker and after the END
\* marker unchanged, and leaves the file unchanged, without failing, when
\* either marker is absent.
C24_InjectBetweenMarkers ==
  rdBy # "none" =>
    IF Contains(rdBefore, BEGIN) /\ Contains(rdBefore, END)
    THEN /\ rdErr = "none"
         /\ \E i, j \in 1..Len(rdBefore) :
              /\ i < j
              /\ rdBefore[i] = BEGIN
              /\ rdBefore[j] = END
              /\ rdFile = SubSeq(rdBefore, 1, i)
                            \o <<"\n\n", Content, "\n">>
                            \o SubSeq(rdBefore, j, Len(rdBefore))
    ELSE rdErr = "none" /\ rdFile = rdBefore

(***************************************************************************)
(* Claims about the demo hub                                               *)
(***************************************************************************)
\* C25: for each key event the hub receives: Left selects the previous demo
\* and Right or Tab the next one, wrapping around the list and resetting
\* the code-pane scroll to 0; q exits the hub; w and s scroll the code pane
\* up and down by one line, never above line 0; every other key is
\* forwarded to the current demo's key handler and to no other demo.
C25_HubKeys ==
  hubEvt.kind = "key" =>
    LET c == Lower(hubEvt.ch)
        n == Len(demos)
    IN CASE hubEvt.code = KeyCode.Left ->
              idx = (hubDemo - 1) % n /\ code_scroll = 0 /\ hubKeyTo = {}
         [] hubEvt.code \in {KeyCode.Right, KeyCode.Tab} ->
              idx = (hubDemo + 1) % n /\ code_scroll = 0 /\ hubKeyTo = {}
         [] c = "q" -> hubRun = "exited" /\ hubKeyTo = {}
         [] c = "w" ->
              /\ code_scroll = Max(0, hubScroll - 1)
              /\ idx = hubDemo /\ hubRun = "running" /\ hubKeyTo = {}
         [] c = "s" ->
              /\ code_scroll = hubScroll + 1
              /\ idx = hubDemo /\ hubRun = "running" /\ hubKeyTo = {}
         [] OTHER ->
              /\ hubKeyTo = {hubDemo}
              /\ idx = hubDemo /\ code_scroll = hubScroll
              /\ hubRun = "running"

\* C27: in an iteration whose batched frame (code pane, then the current
\* demo's draw commands) fails, the hub falls back to the two-call
\* sequence: it draws the code pane and then does the current demo's own
\* direct render, so both panes are still drawn.
C27_FallbackDrawsBothPanes ==
  hubFrame = "failed" =>
    hubCalls = <<"draw_frame", "draw_paragraph(pcode)", "demo.render">>

\* C30: every key event that a demo's on_key reacts to is delivered to it
\* when it is the current demo of the hub - Left / Right for the Files and
\* the Mandelbrot demo, s for the Charts demo: the hub never consumes a key
\* that the current demo handles.
C30_HandledKeysDelivered ==
  hubEvt.kind = "key" /\ Reacts(Demo(hubDemo), hubEvt) => hubDemo \in hubKeyTo

(***************************************************************************)
(* Claims about List.append_items_spans                                    *)
(***************************************************************************)
RECURSIVE JoinTexts(_)
\* The concatenation of the texts of the spans.
JoinTexts(spans) ==
  IF spans = <<>> THEN <<>> ELSE spans[1].text \o JoinTexts(Tail(spans))

\* C28: when the native batching call is absent, List.append_items_spans
\* appends exactly one list item per entry of items, in order, and the text
\* of each appended item is the concatenation of that entry's span texts.
C28_OneItemPerEntry ==
  lstDone /\ ~lstBatch =>
    /\ Len(lstItems) = Len(lstArg)
    /\ \A i \in 1..Len(lstArg) :
         i <= Len(lstItems) => lstItems[i].text = JoinTexts(lstArg[i])

====
